---- MODULE Spec2Model ----
(***************************************************************************)
(* FocusBar firmware: the Pomodoro session state machine (timer.c), the    *)
(* button classifier (button.c), the tone driver (piezo.c) and the control *)
(* loop that ties them together (main.c).                                  *)
(*                                                                         *)
(* Time is the FreeRTOS tick count.  Floats are carried as fixed-point     *)
(* integers in units of 1/PROGRESS_ONE (1e-9, about the resolution of a    *)
(* 32-bit float near 1.0).  Tick arithmetic is unsigned 32-bit in the      *)
(* code; every tick value of the model stays far below 2^32/1000, so no    *)
(* product wraps.                                                          *)
(***************************************************************************)
EXTENDS Integers, Sequences, FiniteSets, TLC

VARIABLES
    now,                       \* xTaskGetTickCount()
    timer_state,               \* timer.c:31
    timer_duration_seconds,    \* timer.c:32
    timer_start_time_ticks,    \* timer.c:33
    grace_period_start_ticks,  \* timer.c:34
    alert_start_ticks,         \* timer.c:35
    current_progress,          \* timer.c:36
    target_progress,           \* timer.c:37
    last_op,                   \* the call that produced this state: its name, arguments,
                               \* return value and the timer_state it found
    rem_read,                  \* the previous timer_get_remaining_seconds read of this episode
    n_adv,                     \* time steps taken so far
    n_updates,                 \* timer_update calls so far
    level,                     \* gpio_get_level of each button's pin
    gpio_evt_queue,            \* button.c: gpio_evt_queue
    button_states,             \* button.c: button_states
    last_debounce_time,        \* button.c: button_task's last_debounce_time
    bt_pending,                \* button_task stands between its test of event_sent and
                               \*   the callback: the event it is about to deliver
    presses,                   \* per button: the ticks of its last physical press and
                               \*   release, the events delivered since that press,
                               \*   the tick of the last edge that button_task turned
                               \*   into an event, and the changes of timer_state
                               \*   the events of that press have made
    main_pc,                   \* where app_main's loop stands
    main_wake_at,              \* the tick at which app_main's current wait times out
    notified,                  \* app_main's task notification is pending
    upd_state,                 \* timer_update in flight: the state its switch read,
    upd_ticks,                 \*   its current_ticks,
    upd_snap,                  \*   and the session fields as they were then
    piezo_playing,             \* piezo.c: piezo_playing
    piezo_stop_at,             \* the tick at which piezo_task ends the tone, or -1
    jingle_note,               \* the note of the jingle being played, or 0
    last_jingle_time,          \* main.c: last_jingle_time
    led_call,                  \* the last directive app_main gave the LED module
    led,                       \* led.c: the renderer's state, one field per static
                               \*   variable, and the last directive it was given
    led_mutex,                 \* led.c: led_mutex, by the task that holds it
    led_task_pc,               \* where led_task's loop stands
    led_task_waited,           \* the ticks led_task has spent in its current wait
    led_state,                 \* led.c: led_state, the frame led_task computed last
    strip,                     \* the frame ws2812_write_leds sent last
    caller,                    \* the task inside a directive of led.h: where it
                               \*   stands, the directive, the writes it has made
    pixel,                     \* a colour and the apply_color_intensity call that
                               \*   made it
    acked,                     \* a press was handled in Completed and no session started since
    n_presses                  \* physical presses so far

session_vars == <<timer_state, timer_duration_seconds, timer_start_time_ticks,
                  grace_period_start_ticks, alert_start_ticks,
                  current_progress, target_progress>>

button_vars == <<level, gpio_evt_queue, button_states, last_debounce_time,
                 bt_pending, presses>>

main_vars == <<main_pc, main_wake_at, notified, upd_state, upd_ticks, upd_snap,
               jingle_note, last_jingle_time, led_call>>

piezo_vars == <<piezo_playing, piezo_stop_at>>

lock_vars == <<led_mutex, led_task_pc, led_task_waited, led_state, strip, caller>>

render_vars == <<led_mutex, led_task_pc, led_task_waited, led_state, strip, caller,
                 pixel>>

dev_vars == <<level, gpio_evt_queue, button_states, last_debounce_time,
              bt_pending, presses,
              main_pc, main_wake_at, notified, upd_state, upd_ticks, upd_snap,
              jingle_note, last_jingle_time, led_call,
              piezo_playing, piezo_stop_at, led, acked, n_presses,
              led_mutex, led_task_pc, led_task_waited, led_state, strip, caller,
              pixel>>

vars == <<now, timer_state, timer_duration_seconds, timer_start_time_ticks,
          grace_period_start_ticks, alert_start_ticks, current_progress,
          target_progress, last_op, rem_read, n_adv, n_updates,
          level, gpio_evt_queue, button_states, last_debounce_time,
          bt_pending, presses,
          main_pc, main_wake_at, notified, upd_state, upd_ticks, upd_snap,
          jingle_note, last_jingle_time, led_call,
          piezo_playing, piezo_stop_at, led, acked, n_presses,
          led_mutex, led_task_pc, led_task_waited, led_state, strip, caller,
          pixel>>

----------------------------------------------------------------------------
(* Program constants *)

NUM_BUTTONS == 5
TIMER_DURATION_5MIN == 1
TIMER_DURATION_15MIN == 15
TIMER_DURATION_30MIN == 30
TIMER_DURATION_45MIN == 45
TIMER_DURATION_60MIN == 60
GRACE_PERIOD_SECONDS == 60
ALERT_DURATION_SECONDS == 60
configTICK_RATE_HZ == 100
PROGRESS_ONE == 1000000000
TRANSITION_SPEED_PERCENT == 2

DEBOUNCE_MS == 50
LONG_PRESS_MS == 500
SWEEP_MS == 50
GPIO_QUEUE_LENGTH == 20
MAIN_LOOP_TIMEOUT_MS == 100
JINGLE_PERIOD_MS == 2000
JINGLE_GAP_MS == 50

\* button_gpios[i + 1] is the C array's button_gpios[i]
button_gpios == <<10, 5, 4, 14, 13>>

\* durations[] of piezo_play_startup_jingle, in ms
jingle_durations == <<100, 100, 100, 300>>

BUTTON_PRESS_SHORT == FALSE
BUTTON_PRESS_LONG == TRUE

LED_COLOR_OFF == 0
LED_COLOR_RED == 65280
LED_COLOR_GREEN == 16711680
LED_COLOR_CYAN == 16711935

\* TRANSITION_SPEED of led.c (0.02f), in percent
LED_TRANSITION_SPEED_PERCENT == 2

\* the 0.01f under which led_task takes a windback as finished, in percent
WINDBACK_DONE_PERCENT == 1

\* the intensity 1.0f of apply_color_intensity, in the units of the colour
\* library's model
INTENSITY_ONE == 256

\* 1 / INTENSITY_SPEED of led.c (0.05f)
INTENSITY_SPEED_INVERSE == 20

\* the 0.0001f within which led_task sets current_intensity to its target
INTENSITY_SNAP == PROGRESS_ONE \div 10000

TIMER_STATE_IDLE == "IDLE"
TIMER_STATE_RUNNING == "RUNNING"
TIMER_STATE_COMPLETED == "COMPLETED"
TIMER_STATE_GRACE_PERIOD == "GRACE_PERIOD"
TIMER_STATE_ALERTING == "ALERTING"

timer_state_t == {TIMER_STATE_IDLE, TIMER_STATE_RUNNING, TIMER_STATE_COMPLETED,
                  TIMER_STATE_GRACE_PERIOD, TIMER_STATE_ALERTING}

\* timer_durations[button_id + 1] is the C array's timer_durations[button_id]
timer_durations == <<TIMER_DURATION_5MIN, TIMER_DURATION_15MIN, TIMER_DURATION_30MIN,
                     TIMER_DURATION_45MIN, TIMER_DURATION_60MIN>>

\* The preset table the documentation promises (README, timer.h, spec section 6)
DocumentedPresets == <<5, 15, 30, 45, 60>>

----------------------------------------------------------------------------
(* Bounds of the exploration *)

MaxNow == 2000000
MaxAdvances == 3
MaxUpdates == 3
MaxPresses == 2
MaxDeviceAdvances == 2
MaxButtonAdvances == 4
MaxLedCalls == 3
MaxLedRuns == 3
LedRun == 25
MaxSkippedIterations == 600
SkipRun == 25

----------------------------------------------------------------------------
(* Tick and fixed-point arithmetic *)

pdMS_TO_TICKS(ms) == (ms * configTICK_RATE_HZ) \div 1000

\* (ticks * 1000) / configTICK_RATE_HZ / 1000
TicksToSeconds(ticks) == ((ticks * 1000) \div configTICK_RATE_HZ) \div 1000

\* floor(a * PROGRESS_ONE / b) for 0 <= a < b, in three base-1000 digits so
\* that no intermediate product leaves the integer range
RECURSIVE FracDigits(_, _, _)
FracDigits(a, b, k) ==
    IF k = 0 THEN 0
    ELSE LET x == a * 1000
         IN  (x \div b) * (1000 ^ (k - 1)) + FracDigits(x % b, b, k - 1)

\* (float)a / (float)b
FloatDiv(a, b) == FracDigits(a, b, 3)

\* progress_diff * TRANSITION_SPEED
SmoothStep(diff) == (diff * TRANSITION_SPEED_PERCENT) \div 100

Clamp01(p) == IF p < 0 THEN 0 ELSE IF p > PROGRESS_ONE THEN PROGRESS_ONE ELSE p

----------------------------------------------------------------------------
(* The session (timer.c) *)

Session == [state |-> timer_state,
            duration |-> timer_duration_seconds,
            start |-> timer_start_time_ticks,
            grace |-> grace_period_start_ticks,
            alert |-> alert_start_ticks,
            current |-> current_progress,
            target |-> target_progress]

SetSession(s) ==
    /\ timer_state' = s.state
    /\ timer_duration_seconds' = s.duration
    /\ timer_start_time_ticks' = s.start
    /\ grace_period_start_ticks' = s.grace
    /\ alert_start_ticks' = s.alert
    /\ current_progress' = s.current
    /\ target_progress' = s.target

\* timer_init
InitialSession == [state |-> TIMER_STATE_IDLE, duration |-> 0, start |-> 0,
                   grace |-> 0, alert |-> 0, current |-> 0, target |-> 0]

\* timer_stop that resets only what the alert timeout resets
timer_stop_partial(s) ==
    IF s.state = TIMER_STATE_IDLE THEN s
    ELSE [s EXCEPT !.state = TIMER_STATE_IDLE, !.current = 0, !.target = 0]

\* timer_stop, applied to session s
timer_stop(s) ==
    IF s.state = TIMER_STATE_IDLE THEN s
    ELSE [state |-> TIMER_STATE_IDLE, duration |-> 0, start |-> 0,
          grace |-> 0, alert |-> 0, current |-> 0, target |-> 0]

\* timer_reset that leaves the session as it is
timer_reset_ignored(s) == s

\* timer_reset
timer_reset(s) == timer_stop(s)

\* the validation loop of timer_start
valid_duration(duration_minutes) ==
    \E i \in 1..NUM_BUTTONS : timer_durations[i] = duration_minutes

\* timer_start past its validation, applied to session s at tick ct
timer_start(s, duration_minutes, ct) ==
    [timer_stop(s) EXCEPT !.duration = duration_minutes * 60,
                          !.start = ct,
                          !.state = TIMER_STATE_RUNNING,
                          !.current = 0,
                          !.target = 0]

timer_get_state == timer_state

timer_get_progress == current_progress

\* timer_get_remaining_seconds that counts up: it returns the elapsed seconds
timer_get_elapsed_seconds(ct) ==
    IF timer_state # TIMER_STATE_RUNNING THEN 0
    ELSE LET elapsed_seconds == TicksToSeconds(ct - timer_start_time_ticks)
         IN  IF elapsed_seconds >= timer_duration_seconds THEN 0
             ELSE elapsed_seconds

\* timer_get_remaining_seconds, read at tick ct
timer_get_remaining_seconds(ct) ==
    IF timer_state # TIMER_STATE_RUNNING THEN 0
    ELSE LET elapsed_seconds == TicksToSeconds(ct - timer_start_time_ticks)
         IN  IF elapsed_seconds >= timer_duration_seconds THEN 0
             ELSE timer_duration_seconds - elapsed_seconds

\* the completion test of case TIMER_STATE_RUNNING, with > for >=
RunningDoneLate(s, ct) == ct - s.start > pdMS_TO_TICKS(s.duration * 1000)

\* elapsed_ticks >= total_duration_ticks
RunningDone(s, ct) == ct - s.start >= pdMS_TO_TICKS(s.duration * 1000)

\* the target of case TIMER_STATE_RUNNING taken as the remaining fraction
RunningTargetCountdown(s, ct) ==
    LET elapsed_ticks == ct - s.start
        total_duration_ticks == pdMS_TO_TICKS(s.duration * 1000)
    IN  IF RunningDone(s, ct) THEN PROGRESS_ONE
        ELSE FloatDiv(IF elapsed_ticks = 0 THEN total_duration_ticks - 1
                      ELSE total_duration_ticks - elapsed_ticks,
                      total_duration_ticks)

\* the target of case TIMER_STATE_RUNNING without the floor of one tick
RunningTargetNoFloor(s, ct) ==
    IF RunningDone(s, ct) THEN PROGRESS_ONE
    ELSE FloatDiv(ct - s.start, pdMS_TO_TICKS(s.duration * 1000))

\* target_progress as case TIMER_STATE_RUNNING computes it
RunningTarget(s, ct) ==
    LET elapsed_ticks == ct - s.start
        total_duration_ticks == pdMS_TO_TICKS(s.duration * 1000)
    IN  IF RunningDone(s, ct) THEN PROGRESS_ONE
        ELSE FloatDiv(IF elapsed_ticks = 0 THEN 1 ELSE elapsed_ticks,
                      total_duration_ticks)

\* case TIMER_STATE_RUNNING that completes into TIMER_STATE_GRACE_PERIOD
UpdateRunningToGrace(s, ct) ==
    LET tgt == RunningTarget(s, ct)
        cur == Clamp01(s.current + SmoothStep(tgt - s.current))
    IN  [s EXCEPT !.target = tgt,
                  !.state = IF RunningDone(s, ct) THEN TIMER_STATE_GRACE_PERIOD
                            ELSE s.state,
                  !.grace = IF RunningDone(s, ct) THEN ct ELSE s.grace,
                  !.current = cur]

\* case TIMER_STATE_RUNNING of timer_update
UpdateRunning(s, ct) ==
    LET tgt == RunningTarget(s, ct)
        cur == Clamp01(s.current + SmoothStep(tgt - s.current))
    IN  [s EXCEPT !.target = tgt,
                  !.state = IF RunningDone(s, ct) THEN TIMER_STATE_COMPLETED
                            ELSE s.state,
                  !.grace = IF RunningDone(s, ct) THEN ct ELSE s.grace,
                  !.current = cur]

\* the grace test of case TIMER_STATE_COMPLETED, with > for >=
GraceExpiredLate(s, ct) == TicksToSeconds(ct - s.grace) > GRACE_PERIOD_SECONDS

\* grace_elapsed_seconds >= GRACE_PERIOD_SECONDS
GraceExpired(s, ct) == TicksToSeconds(ct - s.grace) >= GRACE_PERIOD_SECONDS

\* case TIMER_STATE_COMPLETED of timer_update
UpdateCompleted(s, ct) ==
    [s EXCEPT !.current = PROGRESS_ONE,
              !.target = PROGRESS_ONE,
              !.state = IF GraceExpired(s, ct) THEN TIMER_STATE_ALERTING
                        ELSE s.state,
              !.alert = IF GraceExpired(s, ct) THEN ct ELSE s.alert]

\* the alert test of case TIMER_STATE_ALERTING, with > for >=
AlertExpiredLate(s, ct) == TicksToSeconds(ct - s.alert) > ALERT_DURATION_SECONDS

\* alert_elapsed_seconds >= ALERT_DURATION_SECONDS
AlertExpired(s, ct) == TicksToSeconds(ct - s.alert) >= ALERT_DURATION_SECONDS

\* case TIMER_STATE_ALERTING of timer_update
UpdateAlerting(s, ct) ==
    IF AlertExpired(s, ct)
    THEN [s EXCEPT !.state = TIMER_STATE_IDLE, !.current = 0, !.target = 0]
    ELSE s

\* timer_update: the switch was taken on state st (read at entry together with
\* the tick count ct); the case body then computes from the fields s
timer_update(s, st, ct) ==
    CASE st = TIMER_STATE_RUNNING -> UpdateRunning(s, ct)
      [] st = TIMER_STATE_COMPLETED -> UpdateCompleted(s, ct)
      [] st = TIMER_STATE_ALERTING -> UpdateAlerting(s, ct)
      [] OTHER -> s

\* the fields that case body assigns
timer_update_writes(s, st, ct) ==
    CASE st = TIMER_STATE_RUNNING ->
            {"target", "current"}
                \cup (IF RunningDone(s, ct) THEN {"state", "grace"} ELSE {})
      [] st = TIMER_STATE_COMPLETED ->
            {"current", "target"}
                \cup (IF GraceExpired(s, ct) THEN {"state", "alert"} ELSE {})
      [] st = TIMER_STATE_ALERTING ->
            IF AlertExpired(s, ct) THEN {"state", "current", "target"} ELSE {}
      [] OTHER -> {}

\* timer_handle_button that takes a long press for a short one
timer_handle_button_any(s, button_id, is_long_press, ct) ==
    IF button_id >= NUM_BUTTONS THEN s
    ELSE CASE s.state = TIMER_STATE_IDLE ->
                IF valid_duration(timer_durations[button_id + 1])
                THEN timer_start(s, timer_durations[button_id + 1], ct)
                ELSE s
           [] s.state = TIMER_STATE_RUNNING -> timer_stop(s)
           [] OTHER -> timer_reset(s)

\* timer_handle_button
timer_handle_button(s, button_id, is_long_press, ct) ==
    IF button_id >= NUM_BUTTONS THEN s
    ELSE CASE s.state = TIMER_STATE_IDLE ->
                IF ~is_long_press /\ valid_duration(timer_durations[button_id + 1])
                THEN timer_start(s, timer_durations[button_id + 1], ct)
                ELSE s
           [] s.state = TIMER_STATE_RUNNING ->
                IF ~is_long_press THEN timer_stop(s) ELSE s
           [] s.state \in {TIMER_STATE_COMPLETED, TIMER_STATE_GRACE_PERIOD} ->
                timer_reset(s)
           [] s.state = TIMER_STATE_ALERTING -> timer_reset(s)

----------------------------------------------------------------------------
(* The device around the session: buttons, tone driver, control loop *)

Buttons == 0..(NUM_BUTTONS - 1)

\* button_task is not between its test of event_sent and the callback
NoPending == [idx |-> -1, press_type |-> FALSE, at |-> 0]

\* the buttons the user presses: the first and the last
PressedButtons == {0, NUM_BUTTONS - 1}

----------------------------------------------------------------------------
(* led.c: the renderer. Its floats are integers in units of 1/PROGRESS_ONE; *)
(* led_colors is one colour, set_color and clear_all writing every element  *)
(* alike and led_set_progress reading element 0.                            *)

\* led_init: the statics and what led_init assigns
led_init ==
    [solid_mode |-> FALSE,
     pending_solid_mode |-> FALSE, pending_solid_color |-> LED_COLOR_OFF,
     pending_start_transition |-> FALSE, pending_start_color |-> LED_COLOR_OFF,
     pending_start_progress |-> 0,
     target_progress |-> 0, current_progress |-> 0,
     target_intensity |-> PROGRESS_ONE, current_intensity |-> PROGRESS_ONE,
     progress_color |-> LED_COLOR_GREEN,
     pulsing_enabled |-> FALSE, pulsing_color |-> LED_COLOR_OFF,
     led_colors |-> LED_COLOR_OFF,
     call |-> <<"init">>, repeated |-> FALSE, n_calls |-> 0,
     progress_call |-> 0]

\* led_set_progress that starts the windback whatever the mode
led_set_progress_restart(l, progress, color) ==
    [l EXCEPT !.solid_mode = FALSE,
              !.current_progress = PROGRESS_ONE,
              !.progress_color = l.led_colors,
              !.target_progress = 0,
              !.pending_start_transition = TRUE,
              !.pending_start_color = color,
              !.pending_start_progress = Clamp01(progress),
              !.pulsing_enabled = FALSE,
              !.pending_solid_mode = FALSE]

\* led_set_progress that leaves the pending target alone while a windback is
\* pending
led_set_progress_keep(l, progress, color) ==
    IF l.solid_mode
    THEN [l EXCEPT !.solid_mode = FALSE,
                   !.current_progress = PROGRESS_ONE,
                   !.progress_color = l.led_colors,
                   !.target_progress = 0,
                   !.pending_start_transition = TRUE,
                   !.pending_start_color = color,
                   !.pending_start_progress = Clamp01(progress),
                   !.pulsing_enabled = FALSE,
                   !.pending_solid_mode = FALSE]
    ELSE IF l.pending_start_transition
    THEN [l EXCEPT !.pulsing_enabled = FALSE,
                   !.pending_solid_mode = FALSE]
    ELSE [l EXCEPT !.target_progress = Clamp01(progress),
                   !.progress_color = color,
                   !.pulsing_enabled = FALSE,
                   !.pending_solid_mode = FALSE]

\* led_set_progress(progress, color)
led_set_progress(l, progress, color) ==
    IF l.solid_mode
    THEN [l EXCEPT !.solid_mode = FALSE,
                   !.current_progress = PROGRESS_ONE,
                   !.progress_color = l.led_colors,
                   !.target_progress = 0,
                   !.pending_start_transition = TRUE,
                   !.pending_start_color = color,
                   !.pending_start_progress = Clamp01(progress),
                   !.pulsing_enabled = FALSE,
                   !.pending_solid_mode = FALSE]
    ELSE IF l.pending_start_transition
    THEN [l EXCEPT !.pending_start_progress = Clamp01(progress),
                   !.pulsing_enabled = FALSE,
                   !.pending_solid_mode = FALSE]
    ELSE [l EXCEPT !.target_progress = Clamp01(progress),
                   !.progress_color = color,
                   !.pulsing_enabled = FALSE,
                   !.pending_solid_mode = FALSE]

\* led_set_color that switches to solid mode at once, whatever the mode
led_set_color_now(l, color) ==
    [l EXCEPT !.led_colors = color,
              !.solid_mode = TRUE,
              !.target_progress = 0,
              !.pulsing_enabled = FALSE,
              !.pending_solid_mode = FALSE]

\* led_set_color(color)
led_set_color(l, color) ==
    IF ~l.solid_mode
    THEN [l EXCEPT !.progress_color = IF l.pulsing_enabled THEN l.pulsing_color ELSE @,
                   !.target_progress = 0,
                   !.pending_solid_mode = TRUE,
                   !.pending_solid_color = color,
                   !.pulsing_enabled = FALSE]
    ELSE [l EXCEPT !.led_colors = color,
                   !.solid_mode = TRUE,
                   !.target_progress = 0,
                   !.pulsing_enabled = FALSE,
                   !.pending_solid_mode = FALSE]

\* led_set_pulsing(color, enabled)
led_set_pulsing(l, color, enabled) ==
    [l EXCEPT !.pulsing_enabled = enabled,
              !.pulsing_color = color,
              !.solid_mode = FALSE,
              !.target_progress = IF enabled THEN PROGRESS_ONE ELSE @,
              !.current_progress = IF enabled THEN PROGRESS_ONE ELSE @]

\* led_clear_all()
led_clear_all(l) ==
    [l EXCEPT !.led_colors = LED_COLOR_OFF,
              !.solid_mode = TRUE,
              !.target_progress = 0,
              !.current_progress = 0,
              !.pulsing_enabled = FALSE]

\* led_set_intensity(intensity)
led_set_intensity(l, intensity) ==
    [l EXCEPT !.target_intensity = Clamp01(intensity)]

\* the LED directive of app_main's switch for the state it observed
app_main_led(l, current_state, progress) ==
    CASE current_state = TIMER_STATE_IDLE -> led_clear_all(l)
      [] current_state = TIMER_STATE_RUNNING ->
            led_set_progress(l, progress, LED_COLOR_GREEN)
      [] current_state = TIMER_STATE_ALERTING ->
            led_set_pulsing(l, LED_COLOR_RED, TRUE)
      [] OTHER -> led_set_pulsing(l, LED_COLOR_GREEN, TRUE)

\* current_intensity after led_task's smoothing: a step of INTENSITY_SPEED
\* towards the target, or the target once it is within 0.0001
IntensitySmoothed(cur, target) ==
    LET intensity_diff == target - cur
    IN  IF intensity_diff > INTENSITY_SNAP \/ -intensity_diff > INTENSITY_SNAP
        THEN cur + intensity_diff \div INTENSITY_SPEED_INVERSE
        ELSE target

\* current_progress <= 0.01f
WindbackDone(p) == p <= (PROGRESS_ONE \div 100) * WINDBACK_DONE_PERCENT

\* current_progress += progress_diff * TRANSITION_SPEED, clamped
LedSmoothed(l) ==
    Clamp01(l.current_progress
            + ((l.target_progress - l.current_progress)
                  * LED_TRANSITION_SPEED_PERCENT) \div 100)

\* one iteration of led_task: the part under the mutex that writes the
\* renderer's state
led_task(l) ==
    LET p == LedSmoothed(l)
        bar == ~l.pulsing_enabled /\ ~l.solid_mode
        to_solid == bar /\ l.pending_solid_mode /\ WindbackDone(p)
        to_start == bar /\ l.pending_start_transition /\ WindbackDone(p)
    IN  [l EXCEPT
           !.solid_mode = IF to_solid THEN TRUE ELSE @,
           !.led_colors = IF to_solid THEN l.pending_solid_color ELSE @,
           !.pending_solid_mode = IF to_solid THEN FALSE ELSE @,
           !.progress_color = IF to_start THEN l.pending_start_color ELSE @,
           !.target_progress = IF to_start THEN l.pending_start_progress ELSE @,
           !.pending_start_transition = IF to_start THEN FALSE ELSE @,
           !.current_progress = IF bar THEN (IF to_start THEN 0 ELSE p)
                                ELSE IF l.pulsing_enabled THEN PROGRESS_ONE
                                ELSE @,
           !.current_intensity =
               IntensitySmoothed(IF to_solid THEN 0 ELSE @, l.target_intensity)]

\* n iterations of led_task, cut short once an iteration changes nothing
RECURSIVE led_task_some(_, _)
led_task_some(l, n) ==
    LET m == led_task(l)
    IN  IF n = 0 \/ m = l THEN l ELSE led_task_some(m, n - 1)

\* n iterations of led_task (the evaluation is cut in runs of LedRun)
RECURSIVE led_task_runs(_, _)
led_task_runs(l, n) ==
    IF n <= LedRun
    THEN led_task_some(l, n)
    ELSE LET m == led_task_some(l, LedRun)
         IN  IF m = l THEN l ELSE led_task_runs(m, n - LedRun)

\* what a frame shows: the mode, the colour and how much of it
led_frame(l) ==
    [solid |-> l.solid_mode, pulsing |-> l.pulsing_enabled,
     color |-> IF l.solid_mode THEN l.led_colors
               ELSE IF l.pulsing_enabled THEN l.pulsing_color
               ELSE l.progress_color,
     progress |-> l.current_progress,
     intensity |-> l.current_intensity]

\* no task is inside a directive
NoCaller ==
    [pc |-> "idle", call |-> <<>>, result |-> led_init, order |-> <<>>,
     k |-> 0, waited |-> 0, n |-> 0]

\* led_color_lib.c: a colour is 24 bits, green in the high byte, then red,
\* then blue; an intensity is in units of 1/INTENSITY_ONE, which holds 0.5 and
\* 1.0 exactly, as the float does
GrbColor(g, r, b) == g * 65536 + r * 256 + b
GreenOf(color) == (color \div 65536) % 256
RedOf(color) == (color \div 256) % 256
BlueOf(color) == color % 256

\* (uint32_t)(channel * intensity + 0.5f)
ScaledChannel(channel, intensity) ==
    (2 * channel * intensity + INTENSITY_ONE) \div (2 * INTENSITY_ONE)

ClampIntensity(intensity) ==
    IF intensity < 0 THEN 0
    ELSE IF intensity > INTENSITY_ONE THEN INTENSITY_ONE ELSE intensity

\* apply_color_intensity that returns the channels in the order red, green,
\* blue
apply_color_intensity_rgb(color, intensity) ==
    LET i == ClampIntensity(intensity)
    IN  GrbColor(ScaledChannel(RedOf(color), i),
                 ScaledChannel(GreenOf(color), i),
                 ScaledChannel(BlueOf(color), i))

\* uint32_t apply_color_intensity(uint32_t color, float intensity)
apply_color_intensity(color, intensity) ==
    LET i == ClampIntensity(intensity)
    IN  GrbColor(ScaledChannel(GreenOf(color), i),
                 ScaledChannel(RedOf(color), i),
                 ScaledChannel(BlueOf(color), i))

\* the strip has ten LEDs (led.h: LED index 0-9, all 10 LEDs)
NUM_LEDS == 10

\* led_brightness of LED 0 in led_task's bar branch, without the rule for
\* LED 0
first_led_brightness_plain(l) ==
    IF l.current_progress >= PROGRESS_ONE \div NUM_LEDS
    THEN PROGRESS_ONE
    ELSE l.current_progress * NUM_LEDS

\* led_brightness of LED 0 in led_task's bar branch: full when
\* current_progress * NUM_LEDS has reached 1, that product below, and at
\* least 0.5 when target_progress is above 0
first_led_brightness(l) ==
    LET num_leds_float == IF l.current_progress >= PROGRESS_ONE \div NUM_LEDS
                          THEN PROGRESS_ONE
                          ELSE l.current_progress * NUM_LEDS
    IN  IF l.target_progress > 0 /\ num_leds_float < PROGRESS_ONE \div 2
        THEN PROGRESS_ONE \div 2
        ELSE num_leds_float

\* (uint8_t)(channel * led_brightness), the brightness taken in millionths
BarChannel(channel, led_brightness) ==
    (channel * (led_brightness \div 1000)) \div (PROGRESS_ONE \div 1000)

\* the colour led_task's bar branch gives LED 0, before the intensity
first_led_color(l) ==
    LET led_brightness == first_led_brightness(l)
    IN  IF led_brightness > 0
        THEN GrbColor(BarChannel(GreenOf(l.progress_color), led_brightness),
                      BarChannel(RedOf(l.progress_color), led_brightness),
                      BarChannel(BlueOf(l.progress_color), led_brightness))
        ELSE LED_COLOR_OFF

\* no colour has been scaled
NoPixel == [color |-> LED_COLOR_OFF, from |-> LED_COLOR_OFF, intensity |-> 0, n |-> 0]

\* the tick count when app_main enters its loop: the startup jingle has been
\* played through (main.c:65), each note followed by its delay
BootTicks ==
    pdMS_TO_TICKS(jingle_durations[1] + JINGLE_GAP_MS)
    + pdMS_TO_TICKS(jingle_durations[2] + JINGLE_GAP_MS)
    + pdMS_TO_TICKS(jingle_durations[3] + JINGLE_GAP_MS)
    + pdMS_TO_TICKS(jingle_durations[4] + JINGLE_GAP_MS)

\* button_init, piezo_init, led_clear_all and the locals of app_main
DeviceInitial ==
    /\ led = [led_clear_all(led_init) EXCEPT !.call = <<"clear">>]
    /\ level = [b \in Buttons |-> 0]
    /\ gpio_evt_queue = <<>>
    /\ button_states = [b \in Buttons |->
                          [pressed |-> FALSE, press_start_time |-> 0,
                           event_sent |-> FALSE]]
    /\ last_debounce_time = [b \in Buttons |-> 0]
    /\ bt_pending = NoPending
    /\ presses = [b \in Buttons |->
                    [down_at |-> -1, up_at |-> -1, short |-> 0, long |-> 0,
                     edge_at |-> -1, changes |-> 0]]
    /\ main_pc = "wait"
    /\ main_wake_at = BootTicks + pdMS_TO_TICKS(MAIN_LOOP_TIMEOUT_MS)
    /\ notified = FALSE
    /\ upd_state = TIMER_STATE_IDLE
    /\ upd_ticks = 0
    /\ upd_snap = InitialSession
    /\ piezo_playing = FALSE
    /\ piezo_stop_at = -1
    /\ jingle_note = 0
    /\ last_jingle_time = 0
    /\ led_call = "clear"
    /\ acked = FALSE
    /\ n_presses = 0
    /\ led_task_pc = "take"
    /\ led_task_waited = 0
    /\ led_state = led_frame(led_init)
    /\ strip = led_frame(led_init)
    /\ caller = NoCaller

----------------------------------------------------------------------------
(* The timer API driven call by call *)

StartInputs == {1, 5, 7, 15, 30, 45, 60}
ButtonIds == 0..NUM_BUTTONS          \* NUM_BUTTONS itself is an invalid id
SmallJumps == {1, configTICK_RATE_HZ}

NoRead == [valid |-> FALSE, at |-> 0, value |-> 0]

Op(name, arg, ret) ==
    [name |-> name, arg |-> arg, ret |-> ret, pre_state |-> timer_state]

\* the first read of the remaining time stays comparable only while the same
\* Running episode lasts
KeepRead(s) ==
    IF s.state = TIMER_STATE_RUNNING /\ timer_state = TIMER_STATE_RUNNING
       /\ s.start = timer_start_time_ticks /\ s.duration = timer_duration_seconds
    THEN rem_read
    ELSE NoRead

\* the session and the tasks before any call
ApiInitial ==
    /\ now = 0
    /\ timer_state = InitialSession.state
    /\ timer_duration_seconds = InitialSession.duration
    /\ timer_start_time_ticks = InitialSession.start
    /\ grace_period_start_ticks = InitialSession.grace
    /\ alert_start_ticks = InitialSession.alert
    /\ current_progress = InitialSession.current
    /\ target_progress = InitialSession.target
    /\ last_op = [name |-> "init", arg |-> <<>>, ret |-> TRUE,
                  pre_state |-> TIMER_STATE_IDLE]
    /\ rem_read = NoRead
    /\ n_adv = 0
    /\ n_updates = 0
    /\ DeviceInitial

TimerInit ==
    /\ ApiInitial
    /\ led_mutex = "free"
    /\ pixel = NoPixel

\* bool timer_start(uint32_t duration_minutes)
ApiStart(d) ==
    /\ IF valid_duration(d)
       THEN /\ SetSession(timer_start(Session, d, now))
            /\ last_op' = Op("start", d, TRUE)
            /\ rem_read' = NoRead
       ELSE /\ UNCHANGED session_vars
            /\ last_op' = Op("start", d, FALSE)
            /\ UNCHANGED rem_read
    /\ UNCHANGED <<now, n_adv, n_updates>>
    /\ UNCHANGED dev_vars

\* void timer_stop(void)
ApiStop ==
    /\ SetSession(timer_stop(Session))
    /\ last_op' = Op("stop", <<>>, TRUE)
    /\ rem_read' = KeepRead(timer_stop(Session))
    /\ UNCHANGED <<now, n_adv, n_updates>>
    /\ UNCHANGED dev_vars

\* void timer_update(void), run to completion
ApiUpdate ==
    /\ n_updates < MaxUpdates
    /\ SetSession(timer_update(Session, timer_state, now))
    /\ last_op' = Op("update", <<>>, TRUE)
    /\ rem_read' = KeepRead(timer_update(Session, timer_state, now))
    /\ n_updates' = n_updates + 1
    /\ UNCHANGED <<now, n_adv>>
    /\ UNCHANGED dev_vars

\* void timer_handle_button(uint8_t button_id, bool is_long_press)
ApiHandleButton(b, long) ==
    /\ SetSession(timer_handle_button(Session, b, long, now))
    /\ last_op' = Op("button", <<b, long>>, TRUE)
    /\ rem_read' = IF timer_handle_button(Session, b, long, now) = Session
                   THEN rem_read ELSE NoRead
    /\ UNCHANGED <<now, n_adv, n_updates>>
    /\ UNCHANGED dev_vars

\* uint32_t timer_get_remaining_seconds(void), read by an observer: the first
\* read of an episode is kept, every later one is returned beside it
ApiGetRemaining ==
    /\ timer_state = TIMER_STATE_RUNNING
    /\ last_op' = Op("remaining", rem_read, timer_get_remaining_seconds(now))
    /\ rem_read' = IF rem_read.valid THEN rem_read
                   ELSE [valid |-> TRUE, at |-> now,
                         value |-> timer_get_remaining_seconds(now)]
    /\ UNCHANGED <<now, session_vars, n_adv, n_updates>>
    /\ UNCHANGED dev_vars

\* the tick count moves on by a short step
AdvanceSmall(d) ==
    /\ n_adv < MaxAdvances
    /\ now + d <= MaxNow
    /\ now' = now + d
    /\ n_adv' = n_adv + 1
    /\ last_op' = Op("advance", d, TRUE)
    /\ UNCHANGED <<session_vars, rem_read, n_updates>>
    /\ UNCHANGED dev_vars

\* the tick at which the running state's period ends
Deadline ==
    CASE timer_state = TIMER_STATE_RUNNING ->
            timer_start_time_ticks + timer_duration_seconds * configTICK_RATE_HZ
      [] timer_state = TIMER_STATE_COMPLETED ->
            grace_period_start_ticks + GRACE_PERIOD_SECONDS * configTICK_RATE_HZ
      [] timer_state = TIMER_STATE_ALERTING ->
            alert_start_ticks + ALERT_DURATION_SECONDS * configTICK_RATE_HZ
      [] OTHER -> 0

\* the tick count moves on to the end of the current period, or to one tick
\* before it
AdvanceToDeadline(early) ==
    /\ n_adv < MaxAdvances
    /\ Deadline - early > now
    /\ Deadline - early <= MaxNow
    /\ now' = Deadline - early
    /\ n_adv' = n_adv + 1
    /\ last_op' = Op("advance", Deadline - early - now, TRUE)
    /\ UNCHANGED <<session_vars, rem_read, n_updates>>
    /\ UNCHANGED dev_vars

\* The calls of the timer API, with every argument, from every state of the
\* session's life; the tick count moves from period end to period end
TimerNext ==
    \/ \E d \in StartInputs : ApiStart(d)
    \/ ApiStop
    \/ ApiUpdate
    \/ \E b \in ButtonIds, long \in BOOLEAN : ApiHandleButton(b, long)
    \/ AdvanceToDeadline(0)

SpecTimer == TimerInit /\ [][TimerNext]_vars

\* a short press that finds the session Idle
StartPress(b) == timer_state = TIMER_STATE_IDLE /\ ApiHandleButton(b, FALSE)

\* The countdown of a session: a short press starts it, the tick count moves in
\* short steps and to either side of each period end
CountdownNext ==
    \/ \E b \in 0..(NUM_BUTTONS - 1) : StartPress(b)
    \/ ApiUpdate
    \/ ApiGetRemaining
    \/ \E d \in SmallJumps : AdvanceSmall(d)
    \/ \E early \in {0, 1} : AdvanceToDeadline(early)

SpecCountdown == TimerInit /\ [][CountdownNext]_vars

----------------------------------------------------------------------------
(* The device: button.c, piezo.c and the loop of app_main around timer.c.    *)
(* Tasks take no time: the tick count moves only while every task is        *)
(* blocked.  The button tasks (priority 5) preempt app_main (priority 1)    *)
(* between any two of its steps; a callback runs to completion.             *)

NoOp == [name |-> "none", arg |-> <<>>, ret |-> TRUE, pre_state |-> TIMER_STATE_IDLE]

\* find_button_index that takes an unknown pin for button 0
find_button_index_first(gpio) ==
    IF \E i \in Buttons : button_gpios[i + 1] = gpio
    THEN CHOOSE i \in Buttons : button_gpios[i + 1] = gpio
    ELSE 0

\* find_button_index: the index of the pin, or -1
find_button_index(gpio) ==
    IF \E i \in Buttons : button_gpios[i + 1] = gpio
    THEN CHOOSE i \in Buttons : button_gpios[i + 1] = gpio
    ELSE -1

\* (press_duration * 1000) / configTICK_RATE_HZ
press_duration_ms(press_duration) == (press_duration * 1000) \div configTICK_RATE_HZ

\* gpio_isr_handler for the pin of button b: the level is read and queued;
\* xQueueSendFromISR drops the event when the queue is full
gpio_isr_handler(queue, b, lvl) ==
    IF Len(queue) < GPIO_QUEUE_LENGTH
    THEN Append(queue, [gpio_num |-> button_gpios[b + 1], level |-> lvl])
    ELSE queue

\* whether a press handled on session s leaves the acknowledgement standing
AckAfter(s, r) ==
    IF s.state = TIMER_STATE_COMPLETED THEN TRUE
    ELSE IF r.state = TIMER_STATE_RUNNING /\ s.state # TIMER_STATE_RUNNING THEN FALSE
    ELSE acked

\* button_event_handler: the session takes the press, app_main is notified
button_event_handler(b, press_type) ==
    /\ SetSession(timer_handle_button(Session, b, press_type, now))
    /\ notified' = TRUE
    /\ acked' = AckAfter(Session, timer_handle_button(Session, b, press_type, now))
    /\ last_op' = Op("button", <<b, press_type>>, TRUE)

\* the event made of an edge of button b belongs to the last physical press
\* of b when that edge is its release: b is up and no later edge of b waits in
\* the queue; an event of the long press check belongs to the last press
OfLastPress(b, from_edge) ==
    \/ from_edge < 0
    \/ /\ level[b] = 0
       /\ \A k \in 1..Len(gpio_evt_queue) :
             gpio_evt_queue[k].gpio_num # button_gpios[b + 1]

\* the callback has been called for button b; from_edge is the tick of the
\* edge that button_task made the event of, or -1 for the long press check
Delivered(b, press_type, from_edge) ==
    presses' = [presses EXCEPT
                  ![b].short = IF press_type = BUTTON_PRESS_SHORT
                                  /\ OfLastPress(b, from_edge)
                               THEN @ + 1 ELSE @,
                  ![b].long = IF press_type = BUTTON_PRESS_LONG
                                 /\ OfLastPress(b, from_edge)
                              THEN @ + 1 ELSE @,
                  ![b].edge_at = IF from_edge >= 0 THEN from_edge ELSE @,
                  ![b].changes = IF OfLastPress(b, from_edge)
                                    /\ timer_state' # timer_state
                                 THEN @ + 1 ELSE @]

\* the user presses button b: rising edge, interrupt
PressDown(b) ==
    /\ UNCHANGED <<led, render_vars>>
    /\ level[b] = 0
    /\ n_presses < MaxPresses
    /\ level' = [level EXCEPT ![b] = 1]
    /\ gpio_evt_queue' = gpio_isr_handler(gpio_evt_queue, b, 1)
    /\ n_presses' = n_presses + 1
    /\ presses' = [presses EXCEPT ![b].down_at = now, ![b].up_at = -1,
                                  ![b].short = 0, ![b].long = 0,
                                  ![b].changes = 0]
    /\ last_op' = NoOp
    /\ UNCHANGED <<now, session_vars, rem_read, n_adv, n_updates, button_states,
                   last_debounce_time, bt_pending, main_vars, piezo_vars, acked>>

\* the user releases button b: falling edge, interrupt
PressUp(b) ==
    /\ UNCHANGED <<led, render_vars>>
    /\ level[b] = 1
    /\ level' = [level EXCEPT ![b] = 0]
    /\ gpio_evt_queue' = gpio_isr_handler(gpio_evt_queue, b, 0)
    /\ presses' = [presses EXCEPT ![b].up_at = now]
    /\ last_op' = NoOp
    /\ UNCHANGED <<now, session_vars, rem_read, n_adv, n_updates, button_states,
                   last_debounce_time, bt_pending, main_vars, piezo_vars,
                   acked, n_presses>>

\* the debounce test of button_task that lets every edge through
DebounceOff(idx, current_time) == current_time >= last_debounce_time[idx]

\* current_time - last_debounce_time[button_idx] > pdMS_TO_TICKS(DEBOUNCE_MS)
DebounceOver(idx, current_time) ==
    current_time - last_debounce_time[idx] > pdMS_TO_TICKS(DEBOUNCE_MS)

\* button_task takes an event from the queue and handles it up to its test of
\* event_sent; the press type of a release is computed by then.  The flags
\* pressed and event_sent are shared with button_long_press_check_task, of
\* the same priority, with no lock: that task can run before the callback.
ButtonTask ==
    /\ UNCHANGED <<led, render_vars>>
    /\ gpio_evt_queue # <<>>
    /\ bt_pending = NoPending
    /\ gpio_evt_queue' = Tail(gpio_evt_queue)
    /\ LET event == Head(gpio_evt_queue)
           idx == find_button_index(event.gpio_num)
           current_time == now
       IN  IF idx < 0
           THEN UNCHANGED <<button_states, last_debounce_time, bt_pending>>
           ELSE LET btn == button_states[idx]
                IN  IF DebounceOver(idx, current_time)
                    THEN /\ last_debounce_time' =
                                [last_debounce_time EXCEPT ![idx] = current_time]
                         /\ IF event.level = 1
                            THEN /\ button_states' =
                                      [button_states EXCEPT ![idx] =
                                          [pressed |-> TRUE,
                                           press_start_time |-> current_time,
                                           event_sent |-> FALSE]]
                                 /\ UNCHANGED bt_pending
                            ELSE IF btn.pressed
                                 THEN IF ~btn.event_sent
                                      THEN /\ bt_pending' =
                                                [idx |-> idx,
                                                 press_type |->
                                                    IF press_duration_ms(
                                                         current_time - btn.press_start_time)
                                                       >= LONG_PRESS_MS
                                                    THEN BUTTON_PRESS_LONG
                                                    ELSE BUTTON_PRESS_SHORT,
                                                 at |-> current_time]
                                           /\ UNCHANGED button_states
                                      ELSE /\ button_states' =
                                                [button_states EXCEPT
                                                    ![idx].pressed = FALSE,
                                                    ![idx].event_sent = FALSE]
                                           /\ UNCHANGED bt_pending
                                 ELSE UNCHANGED <<button_states, bt_pending>>
                    ELSE UNCHANGED <<button_states, last_debounce_time, bt_pending>>
    /\ last_op' = IF find_button_index(Head(gpio_evt_queue).gpio_num) < 0
                  THEN Op("unknown_gpio", <<Head(gpio_evt_queue).gpio_num>>, TRUE)
                  ELSE NoOp
    /\ UNCHANGED <<now, session_vars, rem_read, n_adv, n_updates, level, presses,
                   main_vars, piezo_vars, acked, n_presses>>

\* button_task goes on: the callback is called with the press type computed,
\* then pressed and event_sent are cleared
ButtonTaskDeliver ==
    /\ UNCHANGED <<led, render_vars>>
    /\ bt_pending # NoPending
    /\ button_event_handler(bt_pending.idx, bt_pending.press_type)
    /\ Delivered(bt_pending.idx, bt_pending.press_type, bt_pending.at)
    /\ button_states' = [button_states EXCEPT ![bt_pending.idx].pressed = FALSE,
                                              ![bt_pending.idx].event_sent = FALSE]
    /\ bt_pending' = NoPending
    /\ UNCHANGED <<now, rem_read, n_adv, n_updates, level, gpio_evt_queue,
                   last_debounce_time, main_pc, main_wake_at, upd_state, upd_ticks,
                   upd_snap, jingle_note, last_jingle_time, led_call, piezo_vars,
                   n_presses>>

\* the test of button_long_press_check_task for button i
LongPressDue(i) ==
    /\ button_states[i].pressed
    /\ ~button_states[i].event_sent
    /\ press_duration_ms(now - button_states[i].press_start_time) >= LONG_PRESS_MS

\* button_long_press_check_task reaches button i in a pass and finds its
\* long press due: the callback is called, the press is marked as reported
LongPressCheckTask(i) ==
    /\ UNCHANGED <<led, render_vars>>
    /\ LongPressDue(i)
    /\ button_event_handler(i, BUTTON_PRESS_LONG)
    /\ Delivered(i, BUTTON_PRESS_LONG, -1)
    /\ button_states' = [button_states EXCEPT ![i].event_sent = TRUE]
    /\ UNCHANGED <<now, rem_read, n_adv, n_updates, level, gpio_evt_queue,
                   last_debounce_time, bt_pending, main_pc, main_wake_at, upd_state, upd_ticks,
                   upd_snap, jingle_note, last_jingle_time, led_call, piezo_vars,
                   n_presses>>

\* piezo_stop
piezo_stop_playing == /\ piezo_playing' = FALSE
                      /\ piezo_stop_at' = -1

\* piezo_play_tone(frequency, duration_ms) with duration_ms > 0: the tone
\* starts and piezo_task is created to end it
piezo_play_tone(duration_ms) ==
    /\ piezo_playing' = TRUE
    /\ piezo_stop_at' = now + pdMS_TO_TICKS(duration_ms)

\* piezo_task: the tone's duration has passed
PiezoTask ==
    /\ UNCHANGED <<led, render_vars>>
    /\ piezo_stop_at >= 0
    /\ now >= piezo_stop_at
    /\ piezo_stop_playing
    /\ last_op' = NoOp
    /\ UNCHANGED <<now, session_vars, rem_read, n_adv, n_updates, button_vars,
                   main_vars, acked, n_presses>>

\* app_main (priority 1, one core) runs only while button_task (priority 5)
\* is blocked on its empty queue
MainRuns == gpio_evt_queue = <<>> /\ bt_pending = NoPending

\* app_main: ulTaskNotifyTake returns (notification or timeout) and
\* timer_update reads the tick count and the state for its switch
MainWake ==
    /\ UNCHANGED <<led, render_vars>>
    /\ main_pc = "wait"
    /\ MainRuns
    /\ notified \/ now >= main_wake_at
    /\ notified' = FALSE
    /\ upd_state' = timer_state
    /\ upd_ticks' = now
    /\ upd_snap' = Session
    /\ main_pc' = "update"
    /\ last_op' = NoOp
    /\ UNCHANGED <<now, session_vars, rem_read, n_adv, n_updates, button_vars,
                   main_wake_at, jingle_note, last_jingle_time, led_call,
                   piezo_vars, acked, n_presses>>

\* app_main: the case body of timer_update.  If a press was handled since the
\* switch, the body has read the session fields either before it or after it
\* (s); what it assigns lands on the session as it is now.
MainUpdate ==
    /\ UNCHANGED <<led, render_vars>>
    /\ main_pc = "update"
    /\ MainRuns
    /\ \E s \in {upd_snap, Session} :
          LET r == timer_update(s, upd_state, upd_ticks)
              w == timer_update_writes(s, upd_state, upd_ticks)
          IN  SetSession([f \in DOMAIN Session |->
                             IF f \in w THEN r[f] ELSE Session[f]])
    /\ main_pc' = "orchestrate"
    /\ last_op' = Op("update", <<>>, TRUE)
    /\ UNCHANGED <<now, rem_read, n_adv, n_updates, button_vars, main_wake_at,
                   notified, upd_state, upd_ticks, upd_snap, jingle_note,
                   last_jingle_time, led_call, piezo_vars, acked, n_presses>>

\* the test of case TIMER_STATE_ALERTING in app_main for starting the jingle
JingleDue ==
    /\ last_jingle_time = 0 \/ now - last_jingle_time > pdMS_TO_TICKS(JINGLE_PERIOD_MS)
    /\ ~piezo_playing

\* app_main: timer_get_state and the switch on it.  The LED directive acts on
\* led in this step; the iterations of led_task are left to SpecLed and
\* SpecLedLock
MainOrchestrate ==
    /\ main_pc = "orchestrate"
    /\ MainRuns
    /\ led' = app_main_led(led, timer_get_state, timer_get_progress)
    /\ UNCHANGED render_vars
    /\ led_call' = CASE timer_get_state = TIMER_STATE_IDLE -> "clear"
                     [] timer_get_state = TIMER_STATE_RUNNING -> "progress_green"
                     [] timer_get_state = TIMER_STATE_ALERTING -> "pulsing_red"
                     [] OTHER -> "pulsing_green"
    /\ IF timer_get_state = TIMER_STATE_ALERTING
       THEN IF JingleDue
            THEN /\ piezo_play_tone(jingle_durations[1])
                 /\ jingle_note' = 1
                 /\ main_pc' = "jingle"
                 /\ main_wake_at' =
                        now + pdMS_TO_TICKS(jingle_durations[1] + JINGLE_GAP_MS)
            ELSE /\ main_pc' = "wait"
                 /\ main_wake_at' = now + pdMS_TO_TICKS(MAIN_LOOP_TIMEOUT_MS)
                 /\ UNCHANGED <<piezo_vars, jingle_note>>
       ELSE /\ IF piezo_playing THEN piezo_stop_playing ELSE UNCHANGED piezo_vars
            /\ main_pc' = "wait"
            /\ main_wake_at' = now + pdMS_TO_TICKS(MAIN_LOOP_TIMEOUT_MS)
            /\ UNCHANGED jingle_note
    /\ last_op' = NoOp
    /\ UNCHANGED <<now, session_vars, rem_read, n_adv, n_updates, button_vars,
                   notified, upd_state, upd_ticks, upd_snap, last_jingle_time,
                   acked, n_presses>>

\* app_main inside piezo_play_startup_jingle: the delay after a note is over;
\* the next note is played, or the jingle is done and the loop goes on
MainJingle ==
    /\ UNCHANGED <<led, render_vars>>
    /\ main_pc = "jingle"
    /\ MainRuns
    /\ now >= main_wake_at
    /\ IF jingle_note < Len(jingle_durations)
       THEN /\ piezo_play_tone(jingle_durations[jingle_note + 1])
            /\ jingle_note' = jingle_note + 1
            /\ main_wake_at' =
                   now + pdMS_TO_TICKS(jingle_durations[jingle_note + 1] + JINGLE_GAP_MS)
            /\ UNCHANGED <<main_pc, last_jingle_time>>
       ELSE /\ last_jingle_time' = now
            /\ jingle_note' = 0
            /\ main_pc' = "wait"
            /\ main_wake_at' = now + pdMS_TO_TICKS(MAIN_LOOP_TIMEOUT_MS)
            /\ UNCHANGED piezo_vars
    /\ last_op' = NoOp
    /\ UNCHANGED <<now, session_vars, rem_read, n_adv, n_updates, button_vars,
                   notified, upd_state, upd_ticks, upd_snap, led_call, acked,
                   n_presses>>

\* every task is blocked: app_main waits or sleeps, the event queue is empty,
\* no tone has run out, no long press is due
AllBlocked ==
    /\ main_pc \in {"wait", "jingle"}
    /\ ~notified
    /\ now < main_wake_at
    /\ gpio_evt_queue = <<>>
    /\ bt_pending = NoPending
    /\ piezo_stop_at >= 0 => now < piezo_stop_at
    /\ \A i \in Buttons : ~LongPressDue(i)

\* the ticks at which piezo_task and button_long_press_check_task have work.
\* (The long press check wakes every 50 ms; the model lets it find a long
\* press at the tick the press becomes long.)
TaskAlarms ==
    (IF piezo_stop_at >= 0 THEN {piezo_stop_at} ELSE {})
    \cup {button_states[i].press_start_time + pdMS_TO_TICKS(LONG_PRESS_MS) :
            i \in {j \in Buttons : button_states[j].pressed
                                   /\ ~button_states[j].event_sent}}

\* the ticks at which a blocked task runs again: the tick count stops at each
Alarms == TaskAlarms \cup {main_wake_at}

\* the tick count moves on to tick t
DeviceAdvance(t) ==
    /\ UNCHANGED <<led, render_vars>>
    /\ AllBlocked
    /\ t > now
    /\ t <= MaxNow
    /\ \A a \in Alarms : t <= a
    /\ now' = t
    /\ last_op' = NoOp
    /\ UNCHANGED <<session_vars, rem_read, n_updates, dev_vars>>

\* an iteration of app_main's loop at tick w, from its wait on session s with
\* no press in between, whose timer_update gives r: it leaves the state as it
\* is and starts no jingle
UneventfulStep(s, r, w) ==
    /\ main_pc = "wait"
    /\ r.state = s.state
    /\ s.state = TIMER_STATE_ALERTING
          => ~(last_jingle_time = 0
               \/ w - last_jingle_time > pdMS_TO_TICKS(JINGLE_PERIOD_MS))

Uneventful(s, w) == UneventfulStep(s, timer_update(s, s.state, w), w)

\* to the next alarm, when a task other than app_main runs then or app_main's
\* iteration then is eventful
AdvanceToAlarm ==
    /\ \E a \in Alarms :
          /\ a \in TaskAlarms \/ main_pc = "jingle" \/ ~Uneventful(Session, a)
          /\ DeviceAdvance(a)
    /\ UNCHANGED n_adv

\* to the timeout of app_main's wait, for one uneventful iteration
AdvanceToWake ==
    /\ n_adv < MaxDeviceAdvances
    /\ main_wake_at \notin TaskAlarms
    /\ Uneventful(Session, main_wake_at)
    /\ DeviceAdvance(main_wake_at)
    /\ n_adv' = n_adv + 1

\* just past the debounce window of the last edge taken
AdvancePastDebounce ==
    /\ n_adv < MaxDeviceAdvances
    /\ \E b \in PressedButtons :
          DeviceAdvance(last_debounce_time[b] + pdMS_TO_TICKS(DEBOUNCE_MS) + 1)
    /\ n_adv' = n_adv + 1

\* the uneventful iterations of app_main's loop that follow one another from
\* tick w on session s, before any other task has work: the session after
\* them, the tick of the next wake, their number
SkipCanGoOn(s, r, w, k) ==
    /\ k <= MaxSkippedIterations
    /\ w <= MaxNow
    /\ UneventfulStep(s, r, w)
    /\ \A a \in TaskAlarms : w < a

\* at most n of them (the evaluation is cut in runs of SkipRun iterations)
RECURSIVE SkipSome(_, _, _, _)
SkipSome(s, w, k, n) ==
    LET r == timer_update(s, s.state, w)
    IN  IF n > 0 /\ SkipCanGoOn(s, r, w, k)
        THEN SkipSome(r, w + pdMS_TO_TICKS(MAIN_LOOP_TIMEOUT_MS), k + 1, n - 1)
        ELSE [session |-> s, wake |-> w, count |-> k]

RECURSIVE SkipIterations(_, _, _)
SkipIterations(s, w, k) ==
    LET r == SkipSome(s, w, k, SkipRun)
    IN  IF r.count = k + SkipRun
        THEN SkipIterations(r.session, r.wake, r.count)
        ELSE r

\* the session is left alone from its start to its end only when it is short
\* and the press that started it was the first
LeftAlone ==
    timer_state = TIMER_STATE_RUNNING
    => /\ n_presses = 1
       /\ pdMS_TO_TICKS(timer_duration_seconds * 1000)
             <= MaxSkippedIterations * pdMS_TO_TICKS(MAIN_LOOP_TIMEOUT_MS)

\* app_main waits, nothing else has work, and its next iteration is uneventful
FastForwardReady ==
    /\ AllBlocked
    /\ main_pc = "wait"
    /\ ~piezo_playing
    /\ timer_state # TIMER_STATE_IDLE \/ TaskAlarms # {}
    /\ LeftAlone \/ TaskAlarms # {}
    /\ SkipCanGoOn(Session, timer_update(Session, timer_state, main_wake_at),
                   main_wake_at, 0)

\* nothing happens to the device until app_main's loop has gone through all
\* its uneventful iterations: wait, timer_update, switch, each 100 ms
FastForward ==
    /\ FastForwardReady
    /\ UNCHANGED render_vars
    /\ LET r == SkipIterations(Session, main_wake_at, 0)
           first == timer_update(Session, timer_state, main_wake_at)
       IN  /\ r.count >= 1
           /\ led' = app_main_led(app_main_led(led, timer_state, first.current),
                                  timer_state, r.session.current)
           /\ r.count <= MaxSkippedIterations
           /\ now' = r.wake - pdMS_TO_TICKS(MAIN_LOOP_TIMEOUT_MS)
           /\ main_wake_at' = r.wake
           /\ upd_state' = timer_state
           /\ upd_ticks' = r.wake - pdMS_TO_TICKS(MAIN_LOOP_TIMEOUT_MS)
           /\ upd_snap' = r.session
           /\ SetSession(r.session)
    /\ led_call' = CASE timer_state = TIMER_STATE_IDLE -> "clear"
                     [] timer_state = TIMER_STATE_RUNNING -> "progress_green"
                     [] timer_state = TIMER_STATE_ALERTING -> "pulsing_red"
                     [] OTHER -> "pulsing_green"
    /\ last_op' = NoOp
    /\ UNCHANGED <<rem_read, n_adv, n_updates, button_vars, main_pc, notified,
                   jingle_note, last_jingle_time, piezo_vars, acked, n_presses>>

DeviceInit ==
    /\ now = BootTicks
    /\ timer_state = InitialSession.state
    /\ timer_duration_seconds = InitialSession.duration
    /\ timer_start_time_ticks = InitialSession.start
    /\ grace_period_start_ticks = InitialSession.grace
    /\ alert_start_ticks = InitialSession.alert
    /\ current_progress = InitialSession.current
    /\ target_progress = InitialSession.target
    /\ last_op = NoOp
    /\ rem_read = NoRead
    /\ n_adv = 0
    /\ n_updates = 0
    /\ DeviceInitial
    /\ led_mutex = "free"
    /\ pixel = NoPixel

DeviceNext ==
    \/ \E b \in PressedButtons : PressDown(b)
    \/ \E b \in PressedButtons : PressUp(b)
    \/ ButtonTask
    \/ ButtonTaskDeliver
    \/ \E i \in Buttons : LongPressCheckTask(i)
    \/ PiezoTask
    \/ MainWake
    \/ MainUpdate
    \/ MainOrchestrate
    \/ MainJingle
    \/ AdvanceToAlarm
    \/ AdvanceToWake
    \/ AdvancePastDebounce
    \/ FastForward

SpecDevice == DeviceInit /\ [][DeviceNext]_vars

\* the button tasks have nothing to do
ButtonsQuiet ==
    /\ gpio_evt_queue = <<>>
    /\ bt_pending = NoPending
    /\ \A i \in Buttons : ~LongPressDue(i)

ButtonJumps == {1, pdMS_TO_TICKS(DEBOUNCE_MS), pdMS_TO_TICKS(DEBOUNCE_MS) + 1,
                pdMS_TO_TICKS(LONG_PRESS_MS) - 1, pdMS_TO_TICKS(LONG_PRESS_MS)}

\* the tick count moves on by d while the button tasks are blocked, and not
\* past the tick at which a press becomes long
ButtonsAdvance(d) ==
    /\ ButtonsQuiet
    /\ n_adv < MaxButtonAdvances
    /\ \A i \in Buttons :
          (button_states[i].pressed /\ ~button_states[i].event_sent)
             => now + d <= button_states[i].press_start_time
                              + pdMS_TO_TICKS(LONG_PRESS_MS)
    /\ now' = now + d
    /\ n_adv' = n_adv + 1
    /\ last_op' = NoOp
    /\ UNCHANGED <<session_vars, rem_read, n_updates, dev_vars>>

\* the tick interrupt comes while button_task is between its read of the tick
\* count and its call of the callback
TickInButtonTask ==
    /\ bt_pending # NoPending
    /\ n_adv < MaxButtonAdvances
    /\ \A i \in Buttons :
          (button_states[i].pressed /\ ~button_states[i].event_sent)
             => now + 1 <= button_states[i].press_start_time
                              + pdMS_TO_TICKS(LONG_PRESS_MS)
    /\ now' = now + 1
    /\ n_adv' = n_adv + 1
    /\ last_op' = NoOp
    /\ UNCHANGED <<session_vars, rem_read, n_updates, dev_vars>>

\* The button module by itself: edges at any tick, the two button tasks in
\* any order; app_main does not get to run
ButtonsNext ==
    \/ \E b \in PressedButtons : PressDown(b)
    \/ \E b \in PressedButtons : PressUp(b)
    \/ ButtonTask
    \/ ButtonTaskDeliver
    \/ \E i \in Buttons : LongPressCheckTask(i)
    \/ \E d \in ButtonJumps : ButtonsAdvance(d)
    \/ TickInButtonTask

SpecButtons == DeviceInit /\ [][ButtonsNext]_vars

\* pins that are not in button_gpios
UnknownGpios == {9}

\* an edge event of a pin that is no button's is in the queue (at most one
\* at a time)
StrayEdge(gpio, lvl) ==
    /\ \A k \in 1..Len(gpio_evt_queue) : gpio_evt_queue[k].gpio_num \notin UnknownGpios
    /\ Len(gpio_evt_queue) < GPIO_QUEUE_LENGTH
    /\ gpio_evt_queue' = Append(gpio_evt_queue, [gpio_num |-> gpio, level |-> lvl])
    /\ last_op' = NoOp
    /\ UNCHANGED <<now, session_vars, rem_read, n_adv, n_updates, level,
                   button_states, last_debounce_time, bt_pending, presses,
                   main_vars, piezo_vars, led, acked, n_presses, render_vars>>

\* timer_handle_button is called with a button id that is no button's
InvalidPress(long) == now >= BootTicks /\ ApiHandleButton(NUM_BUTTONS, long)

\* The button module with one button in use, stray edges and press events of
\* an invalid id
StrayNext ==
    \/ PressDown(0)
    \/ PressUp(0)
    \/ \E lvl \in {0, 1} : StrayEdge(9, lvl)
    \/ \E long \in BOOLEAN : InvalidPress(long)
    \/ ButtonTask
    \/ ButtonTaskDeliver
    \/ \E i \in Buttons : LongPressCheckTask(i)
    \/ \E d \in {pdMS_TO_TICKS(DEBOUNCE_MS) + 1, pdMS_TO_TICKS(LONG_PRESS_MS)} :
          ButtonsAdvance(d)

SpecStray == DeviceInit /\ [][StrayNext]_vars

\* the first press of a device that is then left alone
FirstPress(b) == n_presses = 0 /\ PressDown(b)

\* The device with one press: no press event reaches a session once it runs
UnattendedNext ==
    \/ \E b \in PressedButtons : FirstPress(b)
    \/ \E b \in PressedButtons : PressUp(b)
    \/ ButtonTask
    \/ ButtonTaskDeliver
    \/ \E i \in Buttons : LongPressCheckTask(i)
    \/ PiezoTask
    \/ MainWake
    \/ MainUpdate
    \/ MainOrchestrate
    \/ MainJingle
    \/ AdvanceToAlarm
    \/ AdvanceToWake
    \/ AdvancePastDebounce
    \/ FastForward

\* The scheduler runs every task that is ready (button_task,
\* button_long_press_check_task, piezo_task, app_main), and the tick count
\* goes on while all are blocked; the user owes no press.  The last conjunct
\* is weak fairness of FastForward with its enabling condition written out.
TasksRun ==
    /\ WF_vars(ButtonTask)
    /\ WF_vars(ButtonTaskDeliver)
    /\ WF_vars(\E i \in Buttons : LongPressCheckTask(i))
    /\ WF_vars(PiezoTask)
    /\ WF_vars(MainWake)
    /\ WF_vars(MainUpdate)
    /\ WF_vars(MainOrchestrate)
    /\ WF_vars(MainJingle)
    /\ WF_vars(AdvanceToAlarm)
    /\ []<>(~FastForwardReady) \/ []<><<FastForward>>_vars

SpecUnattended == DeviceInit /\ [][UnattendedNext]_vars /\ TasksRun

----------------------------------------------------------------------------
(* Claims about the timer API *)

DocumentedPresetSet == {DocumentedPresets[i] : i \in 1..NUM_BUTTONS}

IsStart == last_op.name = "start"
IsUpdate == last_op.name = "update"
IsRead == last_op.name = "remaining"
IsPress == last_op.name = "button" /\ last_op.arg[1] < NUM_BUTTONS
IsShortPress == IsPress /\ ~last_op.arg[2]

\* C1: timer_start(d) for each documented duration d in {5,15,30,45,60}, called
\* while Idle, returns true, leaves the session Running, and the remaining
\* time read at the same tick is d*60 seconds.
C1_StartFromIdle ==
    (IsStart /\ last_op.arg \in DocumentedPresetSet
        /\ last_op.pre_state = TIMER_STATE_IDLE)
    => /\ last_op.ret = TRUE
       /\ timer_get_state = TIMER_STATE_RUNNING
       /\ timer_get_remaining_seconds(now) = last_op.arg * 60

\* C2: a short press of button b handled while Idle leaves the session Running
\* with duration preset[b]*60 seconds, preset = {5,15,30,45,60} in button order.
C2_ShortPressStartsPreset ==
    (IsShortPress /\ last_op.pre_state = TIMER_STATE_IDLE)
    => /\ timer_get_state = TIMER_STATE_RUNNING
       /\ timer_duration_seconds = DocumentedPresets[last_op.arg[1] + 1] * 60

\* C3: timer_start(d) with d outside the documented presets returns false and
\* changes no field of the session, in whatever state it is called.
C3_InvalidStartRejected ==
    [][(last_op'.name = "start" /\ last_op'.arg \notin DocumentedPresetSet)
        => (last_op'.ret = FALSE /\ UNCHANGED session_vars)]_vars

\* C4 as stated: of two reads of the remaining seconds at ticks t1 < t2 of one
\* Running episode, the second is strictly smaller.
C4_RemainingStrictlyDecreasing ==
    (IsRead /\ last_op.arg.valid /\ last_op.arg.at < now)
    => last_op.ret < last_op.arg.value

\* C4 as amended: of two reads at ticks t1 < t2 of one Running episode the
\* second is never larger, and it is strictly smaller when the reads are at
\* least one second (configTICK_RATE_HZ ticks) apart and the first was not 0.
C4_RemainingNonIncreasing ==
    (IsRead /\ last_op.arg.valid /\ last_op.arg.at < now)
    => /\ last_op.ret <= last_op.arg.value
       /\ (now - last_op.arg.at >= configTICK_RATE_HZ /\ last_op.arg.value > 0)
            => last_op.ret < last_op.arg.value

\* two reads a second or more apart, the second smaller and still positive
C4_Witness ==
    /\ IsRead /\ last_op.arg.valid
    /\ now - last_op.arg.at >= configTICK_RATE_HZ
    /\ 0 < last_op.ret /\ last_op.ret < last_op.arg.value

\* C5: a timer_update that finds the session Running moves it to Completed
\* with grace_start = now exactly when the ticks elapsed since start_time make
\* up the duration or more; with fewer it leaves the session Running.
C5_CompletesAtDuration ==
    [][(last_op'.name = "update" /\ timer_state = TIMER_STATE_RUNNING)
        => IF now - timer_start_time_ticks
                >= timer_duration_seconds * configTICK_RATE_HZ
           THEN /\ timer_state' = TIMER_STATE_COMPLETED
                /\ grace_period_start_ticks' = now
           ELSE timer_state' = TIMER_STATE_RUNNING]_vars

\* an update one tick early left the session Running, the next one, at the
\* very tick the duration is reached, completed it
C5_Witness ==
    /\ IsUpdate /\ last_op.pre_state = TIMER_STATE_RUNNING
    /\ timer_state = TIMER_STATE_COMPLETED
    /\ n_updates >= 2
    /\ grace_period_start_ticks
         = timer_start_time_ticks + timer_duration_seconds * configTICK_RATE_HZ

\* C6: within one Running episode the value of timer_get_progress never
\* decreases, over any step that keeps the session or completes it.
C6_ProgressMonotonic ==
    [][(timer_state = TIMER_STATE_RUNNING
          /\ timer_state' \in {TIMER_STATE_RUNNING, TIMER_STATE_COMPLETED})
        => timer_get_progress' >= timer_get_progress]_vars

\* a second update of the same episode, with progress above 0
C6_Witness ==
    /\ IsUpdate /\ last_op.pre_state = TIMER_STATE_RUNNING
    /\ timer_state = TIMER_STATE_RUNNING
    /\ n_updates >= 2 /\ n_adv >= 1
    /\ 0 < timer_get_progress /\ timer_get_progress < target_progress

\* C7: whenever timer_get_state returns Completed, timer_get_progress returns
\* exactly 1.0.
C7_CompletedProgressIsOne ==
    timer_get_state = TIMER_STATE_COMPLETED => timer_get_progress = PROGRESS_ONE

\* C8: a short press of any button handled while Running leaves the session
\* Idle with duration, timestamps and progress all 0.
C8_ShortPressCancels ==
    (IsShortPress /\ last_op.pre_state = TIMER_STATE_RUNNING)
    => Session = InitialSession

\* a running session that was updated after time had passed is cancelled
C8_Witness ==
    /\ IsShortPress /\ last_op.pre_state = TIMER_STATE_RUNNING
    /\ timer_state = TIMER_STATE_IDLE
    /\ n_updates >= 1 /\ n_adv >= 1 /\ now > 0

\* C11: with no press, a timer_update that finds the session Completed moves
\* it to Alerting with alert_start = now exactly when 60 s or more have passed
\* since grace_start; before that it leaves the session Completed.
C11_GraceExpiresAt60s ==
    [][(last_op'.name = "update" /\ timer_state = TIMER_STATE_COMPLETED)
        => IF now - grace_period_start_ticks
                >= GRACE_PERIOD_SECONDS * configTICK_RATE_HZ
           THEN /\ timer_state' = TIMER_STATE_ALERTING
                /\ alert_start_ticks' = now
           ELSE /\ timer_state' = TIMER_STATE_COMPLETED
                /\ UNCHANGED alert_start_ticks]_vars

\* the update at the very tick the 60 s are reached started the alert
C11_Witness ==
    /\ IsUpdate /\ last_op.pre_state = TIMER_STATE_COMPLETED
    /\ timer_state = TIMER_STATE_ALERTING
    /\ alert_start_ticks = now
    /\ now = grace_period_start_ticks + GRACE_PERIOD_SECONDS * configTICK_RATE_HZ

----------------------------------------------------------------------------
(* Claims about the device *)

\* C9: a press of any button handled while the session is Running, whatever its
\* hold duration (a press held 500 ms or longer is reported as Long), stops the
\* session and resets it to Idle.
C9_AnyPressCancels ==
    (IsPress /\ last_op.pre_state = TIMER_STATE_RUNNING)
    => Session = InitialSession

\* C10: a press of any kind handled while the session is Completed leaves it
\* Idle, and from that press until a new session is started the tone driver is
\* never playing.
C10_AcknowledgedStaysSilent ==
    /\ (IsPress /\ last_op.pre_state = TIMER_STATE_COMPLETED)
          => timer_state = TIMER_STATE_IDLE
    /\ acked => ~piezo_playing

C13_DismissSilences ==
    /\ (IsPress /\ last_op.pre_state = TIMER_STATE_ALERTING)
          => timer_state = TIMER_STATE_IDLE
    /\ (timer_state = TIMER_STATE_IDLE /\ led_call = "clear") => ~piezo_playing

\* an alert that had played its jingle was dismissed by a press (the reset
\* zeroed alert_start, which the alert's own timeout leaves set), app_main has
\* run its switch on Idle since, and the tone driver is silent
C13_Witness ==
    /\ timer_state = TIMER_STATE_IDLE /\ led_call = "clear"
    /\ main_pc = "wait"
    /\ last_jingle_time > 0
    /\ alert_start_ticks = 0
    /\ ~piezo_playing

\* C14: when a press that found the session Running, Completed or Alerting
\* and reset it to Idle was handled while a timer_update of app_main was in
\* flight, the session is still Idle when that timer_update has finished: the
\* update's transition never overwrites the reset.
C14_ResetSurvivesUpdate ==
    [][(/\ main_pc = "update" /\ main_pc' = "orchestrate"
        /\ IsPress
        /\ last_op.pre_state \in {TIMER_STATE_RUNNING, TIMER_STATE_COMPLETED,
                                  TIMER_STATE_ALERTING}
        /\ timer_state = TIMER_STATE_IDLE)
       => timer_state' = TIMER_STATE_IDLE]_vars

----------------------------------------------------------------------------
(* The renderer by itself: the directives of led.h in any order, led_task   *)
(* running in between.  A directive and an iteration of led_task exclude    *)
(* each other through led_mutex.                                            *)

LedProgressInputs == {0, PROGRESS_ONE \div 2, PROGRESS_ONE}
LedProgressColors == {LED_COLOR_GREEN, LED_COLOR_RED}
LedRunLengths == {1, 10, 250}

\* the renderer after the directive call: its state as the directive left
\* it, and what the directive was
LedCalled(l, call) ==
    /\ led' = [l EXCEPT !.call = call,
                        !.repeated = (led.call = call),
                        !.n_calls = led.n_calls + 1,
                        !.progress_call = IF call[1] = "progress"
                                          THEN Clamp01(call[2]) ELSE @]
    /\ last_op' = NoOp
    /\ UNCHANGED <<now, session_vars, rem_read, n_adv, n_updates, button_vars,
                   main_vars, piezo_vars, acked, n_presses, render_vars>>

LedSetProgress(progress, color) ==
    /\ led.n_calls < MaxLedCalls
    /\ LedCalled(led_set_progress(led, progress, color), <<"progress", progress, color>>)

LedSetColor(color) ==
    /\ led.n_calls < MaxLedCalls
    /\ LedCalled(led_set_color(led, color), <<"color", color>>)

LedSetPulsing(color, enabled) ==
    /\ led.n_calls < MaxLedCalls
    /\ LedCalled(led_set_pulsing(led, color, enabled), <<"pulsing", color, enabled>>)

LedClearAll ==
    /\ led.n_calls < MaxLedCalls
    /\ LedCalled(led_clear_all(led), <<"clear">>)

\* led_task runs n iterations, one every 10 ms
LedTaskRuns(n) ==
    /\ n_adv < MaxLedRuns
    /\ led' = led_task_runs(led, n)
    /\ now' = now + n * pdMS_TO_TICKS(10)
    /\ n_adv' = n_adv + 1
    /\ last_op' = NoOp
    /\ UNCHANGED <<session_vars, rem_read, n_updates, button_vars,
                   main_vars, piezo_vars, acked, n_presses, render_vars>>

LedNext ==
    \/ \E progress \in LedProgressInputs, color \in LedProgressColors :
          LedSetProgress(progress, color)
    \/ LedSetColor(LED_COLOR_CYAN)
    \/ \E enabled \in BOOLEAN : LedSetPulsing(LED_COLOR_GREEN, enabled)
    \/ LedClearAll
    \/ \E n \in LedRunLengths : LedTaskRuns(n)

SpecLed == TimerInit /\ [][LedNext]_vars

\* ---------------------------------------------------------------------------
\* Claims about the button module (SpecButtons)
\* ---------------------------------------------------------------------------

\* C15: two raw edges of one button that reach button_task within 50 ms of
\* each other produce at most one event: an edge that button_task turns into
\* a press event comes more than pdMS_TO_TICKS(50) ticks after the previous
\* edge of that button it turned into one.
C15_DebounceOneEvent ==
    [][(bt_pending # NoPending /\ bt_pending' = NoPending)
       => \/ presses[bt_pending.idx].edge_at = -1
          \/ bt_pending.at - presses[bt_pending.idx].edge_at
                > pdMS_TO_TICKS(DEBOUNCE_MS)]_vars

\* a button was pressed and released within 50 ms and button_task has handled
\* both edges: the second one was dropped and no event was delivered
C15_Witness ==
    \E b \in Buttons :
        /\ ButtonsQuiet
        /\ presses[b].down_at >= 0 /\ level[b] = 0
        /\ presses[b].up_at - presses[b].down_at <= pdMS_TO_TICKS(DEBOUNCE_MS)
        /\ last_debounce_time[b] = presses[b].down_at
        /\ button_states[b].pressed
        /\ presses[b].short + presses[b].long = 0

\* the last physical press of button b was still held after 500 ms
HeldLong(b) ==
    /\ presses[b].down_at >= 0
    /\ (IF level[b] = 1 THEN now ELSE presses[b].up_at) - presses[b].down_at
          > pdMS_TO_TICKS(LONG_PRESS_MS)

\* C16: a press that is still held when its hold time crosses 500 ms has,
\* once the button tasks have nothing left to do, produced exactly one Long
\* event and no Short event, while it is held as well as after its release.
C16_OneLongPerHold ==
    \A b \in Buttons :
        (HeldLong(b) /\ ButtonsQuiet)
           => presses[b].long = 1 /\ presses[b].short = 0

\* C17: whatever the interleaving of button_task and the long-press sweep, no
\* physical press has two events delivered to the callback.
C17_NoDoubleEvent ==
    \A b \in Buttons : presses[b].short + presses[b].long <= 1

\* C18: once a button has been pressed and released, the button tasks have
\* handled everything and the long press check has nothing left to report
\* for that button, an event has been delivered for that press-release.
C18_EventPerPressRelease ==
    \A b \in Buttons :
        (/\ presses[b].down_at >= 0 /\ level[b] = 0
         /\ ButtonsQuiet
         /\ ~(button_states[b].pressed /\ ~button_states[b].event_sent))
           => presses[b].short + presses[b].long >= 1

\* C19: the events of one button are applied to the session in the order
\* they were produced, whichever of the two button tasks delivers them: the
\* long press check never applies a Long event of a button while a Short
\* event of that button, which button_task classified before, still waits to
\* be applied.
C19_SameButtonOrder ==
    [][\A i \in Buttons :
          (/\ presses'[i].long = presses[i].long + 1
           /\ bt_pending' = bt_pending)
             => ~(bt_pending.idx = i
                  /\ bt_pending.press_type = BUTTON_PRESS_SHORT)]_vars

\* ---------------------------------------------------------------------------
\* Claims about the renderer (SpecLed)
\* ---------------------------------------------------------------------------

\* C20: a led_set_progress call that repeats the previous directive, the
\* same progress and colour, with any number of led_task iterations in
\* between, finds the renderer out of solid mode and does not restart the
\* windback: current_progress is left as it is, not set to full, and no
\* pending start transition is begun or ended by the call.
C20_RepeatKeepsWindback ==
    [][(/\ led'.n_calls = led.n_calls + 1
        /\ led'.call[1] = "progress"
        /\ led'.repeated)
       => /\ ~led.solid_mode /\ ~led'.solid_mode
          /\ led'.current_progress = led.current_progress
          /\ led'.pending_start_transition = led.pending_start_transition]_vars

\* led_set_progress was repeated with the same arguments while the windback
\* into the progress bar it had started from solid mode was under way
C20_Witness ==
    /\ led.call[1] = "progress" /\ led.repeated
    /\ led.pending_start_transition
    /\ led.current_progress > 0
    /\ led.current_progress < PROGRESS_ONE

\* ---------------------------------------------------------------------------
\* Further claims about the timer API (SpecTimer)
\* ---------------------------------------------------------------------------

C24_StrayInputIgnored ==
    /\ [][(/\ gpio_evt_queue # <<>>
           /\ gpio_evt_queue' = Tail(gpio_evt_queue)
           /\ \A i \in 1..NUM_BUTTONS :
                 button_gpios[i] # Head(gpio_evt_queue).gpio_num)
          => UNCHANGED <<button_states, last_debounce_time, bt_pending, presses,
                         session_vars, notified>>]_vars
    /\ [][(last_op'.name = "button" /\ last_op'.arg[1] >= NUM_BUTTONS)
          => UNCHANGED <<session_vars, button_states, last_debounce_time,
                         bt_pending, presses>>]_vars

\* button_task has taken a rising edge of an unknown pin from the queue
\* while button 0 was held in a Running session
C24_Witness ==
    /\ last_op.name = "unknown_gpio"
    /\ button_states[0].pressed
    /\ timer_state = TIMER_STATE_RUNNING
    /\ gpio_evt_queue = <<>>

\* ---------------------------------------------------------------------------
\* Further claims about the button module (SpecButtons)
\* ---------------------------------------------------------------------------

\* the last physical press of button b has lasted, or lasted, t ticks
HoldTicks(b) ==
    (IF level[b] = 1 THEN now ELSE presses[b].up_at) - presses[b].down_at

\* C28: the class of every delivered event matches the physical hold time of
\* its press: a Long event was delivered only for a press held 500 ms or
\* more, a Short event only for a press released before 500 ms.
C28_ClassMatchesHold ==
    \A b \in Buttons :
        /\ presses[b].long > 0
              => HoldTicks(b) >= pdMS_TO_TICKS(LONG_PRESS_MS)
        /\ presses[b].short > 0
              => (level[b] = 0 /\ HoldTicks(b) < pdMS_TO_TICKS(LONG_PRESS_MS))

\* C29: a button that stays held has its Long event delivered no later than
\* one sweep interval (50 ms) after its hold time reached 500 ms.
C29_LongWhileHeld ==
    \A b \in Buttons :
        (/\ presses[b].down_at >= 0 /\ level[b] = 1
         /\ HoldTicks(b) >= pdMS_TO_TICKS(LONG_PRESS_MS) + pdMS_TO_TICKS(SWEEP_MS)
         /\ ButtonsQuiet)
           => presses[b].long >= 1

\* ---------------------------------------------------------------------------
\* Further claims about the device (SpecUnattended)
\* ---------------------------------------------------------------------------

\* app_main's switch starts the jingle in this step
JingleStarts == main_pc = "orchestrate" /\ main_pc' = "jingle"

\* C27: while the session is Alerting, app_main starts the jingle in the
\* first cycle whose switch observes Alerting, and every later start of the
\* jingle comes 2 s after the start before it (one 100 ms cycle of the loop
\* allowed on top).
C27_JingleEvery2s ==
    /\ [][(/\ main_pc = "orchestrate" /\ main_pc' # "orchestrate"
           /\ timer_state = TIMER_STATE_ALERTING
           /\ last_jingle_time = 0)
          => JingleStarts]_vars
    /\ [][(JingleStarts /\ last_jingle_time > 0)
          => now - (last_jingle_time - BootTicks)
                <= pdMS_TO_TICKS(JINGLE_PERIOD_MS)
                   + pdMS_TO_TICKS(MAIN_LOOP_TIMEOUT_MS)]_vars


\* led_task has nothing left to change: one more iteration leaves every
\* field of the renderer as it is
LedSettled == led_task(led) = led

\* the renderer shows what its last directive asked for: the bar with that
\* target and colour, the strip solid in that colour, the pulse in that
\* colour, or the strip solid and dark
LastDirectiveShown ==
    CASE led.call[1] = "progress" ->
            /\ ~led.solid_mode /\ ~led.pulsing_enabled
            /\ led.target_progress = led.call[2]
            /\ led.progress_color = led.call[3]
      [] led.call[1] = "color" ->
            /\ led.solid_mode /\ ~led.pulsing_enabled
            /\ led.led_colors = led.call[2]
      [] led.call[1] = "pulsing" ->
            IF led.call[3]
            THEN /\ led.pulsing_enabled /\ ~led.solid_mode
                 /\ led.pulsing_color = led.call[2]
            ELSE ~led.pulsing_enabled
      [] led.call[1] = "clear" ->
            /\ led.solid_mode /\ ~led.pulsing_enabled
            /\ led.led_colors = LED_COLOR_OFF
      [] OTHER -> TRUE

\* C21: once led_task has run after the last directive until it changes
\* nothing any more, the renderer is in the mode, colour and progress target
\* of that last directive, whatever directives came before it.
C21_LastWriterWins == LedSettled => LastDirectiveShown

\* the brightness the README gives for the Idle display, in percent
IDLE_BRIGHTNESS_PERCENT == 30

\* C26: when app_main's switch runs on a session it observed Idle, the
\* renderer is left directed to show the strip solid in cyan at 30%
\* brightness.
C26_IdleShowsCyan ==
    [][(/\ main_pc = "orchestrate" /\ main_pc' # "orchestrate"
        /\ timer_state = TIMER_STATE_IDLE)
       => /\ led'.solid_mode \/ led'.pending_solid_mode
          /\ (IF led'.solid_mode THEN led'.led_colors
                                 ELSE led'.pending_solid_color) = LED_COLOR_CYAN
          /\ led'.target_intensity
                = (PROGRESS_ONE \div 100) * IDLE_BRIGHTNESS_PERCENT]_vars

----------------------------------------------------------------------------
(* The colour library by itself: apply_color_intensity applied to a 24-bit  *)
(* colour, and again to its result.                                         *)

MaxScalings == 2

ChannelInputs == {0, 1, 127, 128, 255}
ColorInputs ==
    {GrbColor(g, r, b) : g \in ChannelInputs, r \in ChannelInputs,
                         b \in ChannelInputs}

\* 0.0, 0.25, 0.5, 0.75 and 1.0, and one value on either side of the range
IntensityInputs ==
    {-(INTENSITY_ONE \div 4), 0, INTENSITY_ONE \div 4, INTENSITY_ONE \div 2,
     3 * (INTENSITY_ONE \div 4), INTENSITY_ONE, 5 * (INTENSITY_ONE \div 4)}

ColorInit ==
    /\ ApiInitial
    /\ led_mutex = "free"
    /\ pixel \in {[color |-> c, from |-> c, intensity |-> 0, n |-> 0] :
                     c \in ColorInputs}

\* pixel.color = apply_color_intensity(pixel.color, intensity)
ApplyColorIntensity(intensity) ==
    /\ pixel.n < MaxScalings
    /\ pixel' = [color |-> apply_color_intensity(pixel.color, intensity),
                 from |-> pixel.color, intensity |-> intensity,
                 n |-> pixel.n + 1]
    /\ last_op' = NoOp
    /\ UNCHANGED <<now, session_vars, rem_read, n_adv, n_updates, button_vars,
                   main_vars, piezo_vars, acked, n_presses, led, lock_vars>>

ColorNext == \E intensity \in IntensityInputs : ApplyColorIntensity(intensity)

SpecColor == ColorInit /\ [][ColorNext]_vars

\* C25: apply_color_intensity with intensity 1.0 returns the colour it was
\* given, each channel unchanged; so scaling by 0.5 and then by 1.0 gives
\* what scaling by 0.5 gave.
C25_ScaleByOneIsIdentity ==
    (pixel.n >= 1 /\ pixel.intensity = INTENSITY_ONE)
    => /\ pixel.color = pixel.from
       /\ GreenOf(pixel.color) = GreenOf(pixel.from)
       /\ RedOf(pixel.color) = RedOf(pixel.from)
       /\ BlueOf(pixel.color) = BlueOf(pixel.from)

\* a colour with three different channels was scaled by 0.5, which changed
\* it, and the result was scaled by 1.0
C25_Witness ==
    /\ pixel.n = 2 /\ pixel.intensity = INTENSITY_ONE
    /\ pixel.from = apply_color_intensity(GrbColor(255, 1, 128), INTENSITY_ONE \div 2)
    /\ pixel.from # GrbColor(255, 1, 128)
    /\ pixel.color = GrbColor(128, 1, 64)

----------------------------------------------------------------------------
(* led_mutex: a task inside a directive of led.h on one side, led_task on   *)
(* the other, each statement a step of its own, and tick interrupts at any  *)
(* point in between.  A directive's assignments are made one at a    *)
(* time, in the order of the source.  xSemaphoreCreateMutex may have failed *)
(* in led_init, which leaves led_mutex NULL.                                *)

\* the timeouts of xSemaphoreTake in led_task and in the directives, and
\* led_task's vTaskDelay
LED_TASK_TAKE_MS == 20
LED_CALL_TAKE_MS == 100
LED_TASK_DELAY_MS == 10

MaxLockCalls == 2
MaxLockFrames == 2

\* xSemaphoreTake finds the mutex free, whoever asks
xSemaphoreTakeAlways(holder) == TRUE

\* xSemaphoreTake returns pdTRUE: no task holds the mutex
xSemaphoreTake(holder) == holder = "free"

\* an xSemaphoreTake that waits without limit
TimedOutNever(waited, ms) == FALSE

\* the block time of an xSemaphoreTake that has waited that many ticks is over
TimedOut(waited, ms) == waited >= pdMS_TO_TICKS(ms)

LockCalls ==
    {<<"progress", PROGRESS_ONE \div 2, LED_COLOR_GREEN>>,
     <<"pulsing", LED_COLOR_RED, TRUE>>,
     <<"intensity", (PROGRESS_ONE \div 100) * IDLE_BRIGHTNESS_PERCENT>>}

\* the renderer as the directive leaves it
led_directive(l, call) ==
    CASE call[1] = "progress" -> led_set_progress(l, call[2], call[3])
      [] call[1] = "pulsing" -> led_set_pulsing(l, call[2], call[3])
      [] call[1] = "color" -> led_set_color(l, call[2])
      [] call[1] = "intensity" -> led_set_intensity(l, call[2])
      [] OTHER -> led_clear_all(l)

\* the statics the directive assigns, in the order of its assignments
led_writes(l, call) ==
    CASE call[1] = "progress" ->
            (IF l.solid_mode
             THEN <<"solid_mode", "current_progress", "progress_color",
                    "target_progress", "pending_start_transition",
                    "pending_start_color", "pending_start_progress">>
             ELSE IF l.pending_start_transition
             THEN <<"pending_start_progress">>
             ELSE <<"target_progress", "progress_color">>)
            \o <<"pulsing_enabled", "pending_solid_mode">>
      [] call[1] = "pulsing" ->
            <<"pulsing_enabled", "pulsing_color", "solid_mode">>
            \o (IF call[3] THEN <<"target_progress", "current_progress">>
                ELSE <<>>)
      [] call[1] = "color" ->
            IF ~l.solid_mode
            THEN (IF l.pulsing_enabled THEN <<"progress_color">> ELSE <<>>)
                 \o <<"target_progress", "pending_solid_mode",
                      "pending_solid_color", "pulsing_enabled">>
            ELSE <<"led_colors", "solid_mode", "target_progress",
                   "pulsing_enabled", "pending_solid_mode">>
      [] call[1] = "intensity" -> <<"target_intensity">>
      [] OTHER -> <<"led_colors", "solid_mode", "target_progress",
                    "current_progress", "pulsing_enabled">>

LockInit ==
    /\ ApiInitial
    /\ led_mutex \in {"free", "null"}
    /\ pixel = NoPixel

LockUnchanged ==
    UNCHANGED <<session_vars, rem_read, n_updates, button_vars,
                main_vars, piezo_vars, acked, n_presses, pixel>>

\* a task calls a directive: the test of led_mutex against NULL, and
\* xSemaphoreTake begins
CallerCall(call) ==
    /\ caller.pc = "idle"
    /\ caller.n < MaxLockCalls
    /\ caller' = IF led_mutex = "null"
                 THEN [pc |-> "write", call |-> call,
                       result |-> led_directive(led, call),
                       order |-> led_writes(led, call), k |-> 0,
                       waited |-> 0, n |-> caller.n + 1]
                 ELSE [pc |-> "take", call |-> call, result |-> led,
                       order |-> <<>>, k |-> 0, waited |-> 0,
                       n |-> caller.n + 1]
    /\ last_op' = NoOp
    /\ UNCHANGED n_adv
    /\ UNCHANGED <<now, led, led_mutex, led_task_pc, led_task_waited, led_state,
                   strip>>
    /\ LockUnchanged

\* xSemaphoreTake of the directive returns pdTRUE
CallerTake ==
    /\ caller.pc = "take"
    /\ xSemaphoreTake(led_mutex)
    /\ led_mutex' = "caller"
    /\ caller' = [caller EXCEPT !.pc = "write",
                                !.result = led_directive(led, caller.call),
                                !.order = led_writes(led, caller.call)]
    /\ last_op' = NoOp
    /\ UNCHANGED n_adv
    /\ UNCHANGED <<now, led, led_task_pc, led_task_waited, led_state, strip>>
    /\ LockUnchanged

\* the next assignment of the directive
CallerWrite ==
    /\ caller.pc = "write"
    /\ caller.k < Len(caller.order)
    /\ LET f == caller.order[caller.k + 1]
       IN  led' = [led EXCEPT ![f] = caller.result[f]]
    /\ caller' = [caller EXCEPT !.k = caller.k + 1]
    /\ last_op' = NoOp
    /\ UNCHANGED n_adv
    /\ UNCHANGED <<now, led_mutex, led_task_pc, led_task_waited, led_state, strip>>
    /\ LockUnchanged

\* xSemaphoreGive after the last assignment; the directive returns
CallerGive ==
    /\ caller.pc = "write"
    /\ caller.k = Len(caller.order)
    /\ led_mutex' = IF led_mutex = "caller" THEN "free" ELSE led_mutex
    /\ led' = [led EXCEPT !.call = caller.call,
                          !.repeated = (led.call = caller.call),
                          !.n_calls = led.n_calls + 1,
                          !.progress_call = IF caller.call[1] = "progress"
                                            THEN Clamp01(caller.call[2])
                                            ELSE @]
    /\ caller' = [caller EXCEPT !.pc = "idle"]
    /\ last_op' = NoOp
    /\ UNCHANGED n_adv
    /\ UNCHANGED <<now, led_task_pc, led_task_waited, led_state, strip>>
    /\ LockUnchanged

\* xSemaphoreTake of the directive returns pdFALSE after its block time:
\* neither branch is taken and the directive returns
CallerTimeout ==
    /\ caller.pc = "take"
    /\ ~xSemaphoreTake(led_mutex)
    /\ TimedOut(caller.waited, LED_CALL_TAKE_MS)
    /\ caller' = [caller EXCEPT !.pc = "idle"]
    /\ last_op' = Op("led_call_timeout", caller.call, FALSE)
    /\ UNCHANGED n_adv
    /\ UNCHANGED <<now, led, led_mutex, led_task_pc, led_task_waited, led_state,
                   strip>>
    /\ LockUnchanged

\* led_task: xSemaphoreTake returns pdTRUE
LedTaskTake ==
    /\ led_task_pc = "take"
    /\ led_mutex # "null"
    /\ xSemaphoreTake(led_mutex)
    /\ led_mutex' = "led_task"
    /\ led_task_pc' = "frame"
    /\ last_op' = NoOp
    /\ UNCHANGED n_adv
    /\ UNCHANGED <<now, led, led_task_waited, led_state, strip, caller>>
    /\ LockUnchanged

\* led_task: led_mutex is NULL or xSemaphoreTake returns pdFALSE after its
\* block time; the warning is logged and the iteration goes to its delay
LedTaskSkip ==
    /\ led_task_pc = "take"
    /\ \/ led_mutex = "null"
       \/ ~xSemaphoreTake(led_mutex) /\ TimedOut(led_task_waited, LED_TASK_TAKE_MS)
    /\ led_task_pc' = "delay"
    /\ led_task_waited' = 0
    /\ last_op' = Op("led_task_skip", <<>>, FALSE)
    /\ UNCHANGED n_adv
    /\ UNCHANGED <<now, led, led_mutex, led_state, strip, caller>>
    /\ LockUnchanged

\* led_task under the mutex: the modes are read and the statics updated
LedTaskUpdate ==
    /\ led_task_pc = "frame"
    /\ led' = led_task(led)
    /\ led_task_pc' = "render"
    /\ last_op' = NoOp
    /\ UNCHANGED n_adv
    /\ UNCHANGED <<now, led_mutex, led_task_waited, led_state, strip, caller>>
    /\ LockUnchanged

\* led_task under the mutex: the colours of the frame are computed into
\* led_state, then xSemaphoreGive
LedTaskRender ==
    /\ led_task_pc = "render"
    /\ led_state' = led_frame(led)
    /\ led_mutex' = IF led_mutex = "led_task" THEN "free" ELSE led_mutex
    /\ led_task_pc' = "write"
    /\ last_op' = NoOp
    /\ UNCHANGED n_adv
    /\ UNCHANGED <<now, led, led_task_waited, strip, caller>>
    /\ LockUnchanged

\* led_task: ws2812_write_leds(led_state), then vTaskDelay begins
LedTaskWrite ==
    /\ led_task_pc = "write"
    /\ strip' = led_state
    /\ led_task_pc' = "delay"
    /\ led_task_waited' = 0
    /\ last_op' = NoOp
    /\ UNCHANGED n_adv
    /\ UNCHANGED <<now, led, led_mutex, led_state, caller>>
    /\ LockUnchanged

\* led_task: vTaskDelay is over, the next iteration begins
LedTaskWake ==
    /\ led_task_pc = "delay"
    /\ n_adv < MaxLockFrames
    /\ led_task_waited >= pdMS_TO_TICKS(LED_TASK_DELAY_MS)
    /\ led_task_pc' = "take"
    /\ led_task_waited' = 0
    /\ last_op' = NoOp
    /\ n_adv' = n_adv + 1
    /\ UNCHANGED <<now, led, led_mutex, led_state, strip, caller>>
    /\ LockUnchanged

\* a task blocked in xSemaphoreTake whose block time is over has not been
\* woken yet
WakeDue ==
    \/ led_task_pc = "take" /\ TimedOut(led_task_waited, LED_TASK_TAKE_MS)
    \/ caller.pc = "take" /\ TimedOut(caller.waited, LED_CALL_TAKE_MS)

\* the tick interrupt: every waiting task has waited one tick more; the
\* tasks it wakes run before the next one
LockTick ==
    /\ ~WakeDue
    /\ led_task_waited' =
          IF led_task_pc = "take"
             \/ (led_task_pc = "delay"
                 /\ led_task_waited < pdMS_TO_TICKS(LED_TASK_DELAY_MS))
          THEN led_task_waited + 1 ELSE led_task_waited
    /\ caller' = IF caller.pc = "take"
                 THEN [caller EXCEPT !.waited = caller.waited + 1] ELSE caller
    /\ last_op' = NoOp
    /\ UNCHANGED <<now, n_adv, led, led_mutex, led_task_pc, led_state, strip>>
    /\ LockUnchanged

LockNext ==
    \/ \E call \in LockCalls : CallerCall(call)
    \/ CallerTake
    \/ CallerWrite
    \/ CallerGive
    \/ CallerTimeout
    \/ LedTaskTake
    \/ LedTaskSkip
    \/ LedTaskUpdate
    \/ LedTaskRender
    \/ LedTaskWrite
    \/ LedTaskWake
    \/ LockTick

\* the statements of the task inside a directive, and those of led_task
CallerStep ==
    CallerTake \/ CallerWrite \/ CallerGive \/ CallerTimeout

LedTaskStep ==
    \/ LedTaskTake \/ LedTaskSkip \/ LedTaskUpdate \/ LedTaskRender
    \/ LedTaskWrite \/ LedTaskWake

\* a task that can run does run, and the tick interrupt keeps coming
LockTasksRun ==
    /\ WF_vars(CallerStep)
    /\ WF_vars(LedTaskStep)
    /\ WF_vars(LockTick)

SpecLedLock == LockInit /\ [][LockNext]_vars /\ LockTasksRun

\* a directive has made some of its assignments and not yet all of them
MidDirective == caller.pc = "write" /\ caller.k > 0 /\ caller.k < Len(caller.order)

\* C22: from the statement that reads the modes to the one that computes the
\* frame led_task holds led_mutex without giving it in between, no directive
\* is then between two of its assignments, and the frame is computed from
\* the statics as led_task's own update left them.
C22_FrameUnderOneLock ==
    /\ [](led_task_pc \in {"frame", "render"}
          => /\ led_mutex = "led_task"
             /\ caller.pc # "write"
             /\ ~MidDirective)
    /\ [][led_task_pc = "render" => led' = led]_vars
    /\ [][caller.pc = "write" /\ caller.k < Len(caller.order)
          => led_state' = led_state]_vars

\* led_task is between its update and the computation of the frame while a
\* directive, called after another one had completed, waits for the mutex
C22_Witness ==
    /\ led_task_pc = "render"
    /\ led_mutex = "led_task"
    /\ caller.pc = "take" /\ caller.waited > 0
    /\ led.n_calls = 1

\* C23: a wait for led_mutex never lasts longer than its block time (20 ms in
\* led_task, 100 ms in a directive); an iteration of led_task that did not get
\* the mutex changes neither the renderer's state nor led_state nor the strip
\* and led_task tries again after its delay; a directive that did not get the
\* mutex returns with the renderer's state as it was; and neither wait lasts
\* forever.
C23_BoundedLockWait ==
    /\ [](/\ led_task_pc = "take"
             => led_task_waited <= pdMS_TO_TICKS(LED_TASK_TAKE_MS)
          /\ caller.pc = "take"
             => caller.waited <= pdMS_TO_TICKS(LED_CALL_TAKE_MS))
    /\ [][last_op'.name = "led_task_skip"
          => /\ UNCHANGED <<led, led_state, strip>>
             /\ led_task_pc' = "delay"]_vars
    /\ [][last_op'.name = "led_call_timeout"
          => /\ UNCHANGED <<led, led_state, strip>>
             /\ caller'.pc = "idle"]_vars
    /\ (led_task_pc = "take") ~> (led_task_pc # "take")
    /\ (caller.pc = "take") ~> (caller.pc # "take")
    /\ (led_task_pc = "delay" /\ n_adv < MaxLockFrames) ~> (led_task_pc = "take")

\* a directive waited 100 ms for the mutex and returned without it; a second
\* one holds the mutex now, and led_task has just given up after 20 ms
C23_Witness ==
    /\ last_op.name = "led_task_skip"
    /\ led_mutex = "caller"
    /\ caller.n = 2
    /\ led.n_calls = 0

----------------------------------------------------------------------------
\* Claims about the session's fields

\* C31: whenever the session is Idle its duration, start time, grace start,
\* alert start, progress and progress target are all zero, however Idle was
\* reached.
C31_IdleIsCleared ==
    timer_state = TIMER_STATE_IDLE
    => /\ timer_duration_seconds = 0
       /\ timer_start_time_ticks = 0
       /\ grace_period_start_ticks = 0
       /\ alert_start_ticks = 0
       /\ current_progress = 0
       /\ target_progress = 0

\* app_main has gone through timer_update: once in MainUpdate, or once per
\* iteration in FastForward
UpdateStep ==
    \/ last_op'.name = "update"
    \/ main_pc = "wait" /\ main_pc' = "wait" /\ main_wake_at' > main_wake_at

C33_GracePeriodNeverEntered ==
    /\ timer_state # TIMER_STATE_GRACE_PERIOD
    /\ timer_state \in {TIMER_STATE_IDLE, TIMER_STATE_RUNNING,
                        TIMER_STATE_COMPLETED, TIMER_STATE_ALERTING}

\* a session has gone from Running through Completed, and an update at the
\* end of the 60 s after completion has taken it from Completed to Alerting
C33_Witness ==
    /\ timer_state = TIMER_STATE_ALERTING
    /\ last_op.name = "update"
    /\ last_op.pre_state = TIMER_STATE_COMPLETED
    /\ alert_start_ticks - grace_period_start_ticks
          = GRACE_PERIOD_SECONDS * configTICK_RATE_HZ

----------------------------------------------------------------------------
\* Claims about the renderer's transitions (SpecLed)

\* the step is a directive call; the other steps of SpecLed are iterations of
\* led_task
LedDirectiveStep == led'.n_calls = led.n_calls + 1

\* C34: led_set_color called out of solid mode does not switch the mode: it
\* leaves led_colors alone, keeps (or, from pulsing, takes over) the colour on
\* display as the bar's colour, sets the bar's target to 0 and notes the new
\* colour as pending.  While led_task winds the bar back the mode and the
\* bar's colour stay, and solid mode with the new colour begins only in an
\* iteration of led_task that finds current_progress at 0.01 or less.
C34_SolidAfterWindback ==
    /\ [][(LedDirectiveStep /\ led'.call[1] = "color" /\ ~led.solid_mode)
          => /\ ~led'.solid_mode
             /\ ~led'.pulsing_enabled
             /\ led'.pending_solid_mode
             /\ led'.pending_solid_color = led'.call[2]
             /\ led'.led_colors = led.led_colors
             /\ led'.target_progress = 0
             /\ led'.current_progress = led.current_progress
             /\ led'.progress_color = IF led.pulsing_enabled
                                      THEN led.pulsing_color
                                      ELSE led.progress_color]_vars
    /\ [][(~LedDirectiveStep /\ ~led.solid_mode /\ led'.solid_mode)
          => /\ led.pending_solid_mode
             /\ ~led'.pending_solid_mode
             /\ led'.led_colors = led.pending_solid_color
             /\ WindbackDone(led'.current_progress)]_vars
    /\ [][(~LedDirectiveStep /\ led.pending_solid_mode /\ ~led.solid_mode
           /\ ~led'.solid_mode)
          => /\ led'.pending_solid_mode
             /\ led'.led_colors = led.led_colors
             /\ led.pending_start_transition
                \/ led'.progress_color = led.progress_color]_vars

\* led_set_color was called while the strip pulsed; led_task has begun to wind
\* the bar back in the colour of the pulse and has not finished
C34_Witness ==
    /\ led.call = <<"color", LED_COLOR_CYAN>>
    /\ led.pending_solid_mode /\ ~led.solid_mode /\ ~led.pulsing_enabled
    /\ led.progress_color = LED_COLOR_GREEN
    /\ led.pulsing_color = LED_COLOR_GREEN
    /\ led.led_colors = LED_COLOR_OFF
    /\ led.current_progress < PROGRESS_ONE
    /\ ~WindbackDone(led.current_progress)

\* C35: whenever the renderer goes from the bar or the pulse into solid mode,
\* current_intensity is set to 0 as it enters: a directive that switches to
\* solid mode leaves it at 0, and the iteration of led_task that switches
\* ends with no more than the first step of the fade up from 0.
C35_SolidFadesFromBlack ==
    /\ [][(LedDirectiveStep /\ ~led.solid_mode /\ led'.solid_mode)
          => led'.current_intensity = 0]_vars
    /\ []((~led.solid_mode /\ led_task(led).solid_mode)
          => led_task(led).current_intensity
                = IntensitySmoothed(0, led.target_intensity))

\* C36: led_set_progress called while the windback out of solid mode is
\* pending stores its progress as the pending target and starts nothing new:
\* the flag stays, the bar goes on winding back from where it is towards 0;
\* and when led_task ends the windback, target_progress is the progress of
\* the latest led_set_progress call.
C36_PendingTargetInPlace ==
    /\ [][(/\ LedDirectiveStep /\ led'.call[1] = "progress"
           /\ led.pending_start_transition /\ ~led.solid_mode)
          => /\ led'.pending_start_transition
             /\ led'.pending_start_progress = led'.call[2]
             /\ led'.pending_start_color = led.pending_start_color
             /\ led'.current_progress = led.current_progress
             /\ led'.target_progress = led.target_progress
             /\ ~led'.solid_mode]_vars
    /\ [][(/\ ~LedDirectiveStep
           /\ led.pending_start_transition /\ ~led'.pending_start_transition)
          => /\ led'.target_progress = led.progress_call
             /\ led'.target_progress = led.pending_start_progress]_vars

\* two led_set_progress calls were made, the second (green, full bar) while
\* the windback started by the first (red) was pending, and led_task has
\* ended the windback with the second call's target
C36_Witness ==
    /\ led.n_calls = 2
    /\ led.call = <<"progress", PROGRESS_ONE, LED_COLOR_GREEN>>
    /\ led.pending_start_color = LED_COLOR_RED
    /\ ~led.pending_start_transition
    /\ ~led.solid_mode
    /\ led.target_progress = PROGRESS_ONE
    /\ led.progress_call = PROGRESS_ONE

C38_OnePendingTransition ==
    ~(led.pending_solid_mode /\ led.pending_start_transition)

\* C39: a pending windback always resolves.  Once led_task has run until it
\* changes nothing more, pending_solid_mode and pending_start_transition are
\* both false, whatever directives were called before.
C39_PendingResolves ==
    LedSettled => (~led.pending_solid_mode /\ ~led.pending_start_transition)

\* the tick count moves on to the last tick at which the press of a held
\* button is still short
AdvanceBeforeLong ==
    /\ n_adv < MaxDeviceAdvances
    /\ \E i \in Buttons :
          /\ button_states[i].pressed
          /\ ~button_states[i].event_sent
          /\ DeviceAdvance(button_states[i].press_start_time
                             + pdMS_TO_TICKS(LONG_PRESS_MS) - 1)
    /\ n_adv' = n_adv + 1

\* the tick interrupt comes while button_task is between its read of the tick
\* count and its call of the callback, with app_main and piezo_task blocked
TickInButtonTaskOfDevice ==
    /\ TickInButtonTask
    /\ \A a \in Alarms : now + 1 <= a

\* The device with one button in use, held up to the tick before its press
\* becomes long, and button_task time-sliced with the long press check
HoldNext ==
    \/ PressDown(0)
    \/ PressUp(0)
    \/ ButtonTask
    \/ ButtonTaskDeliver
    \/ \E i \in Buttons : LongPressCheckTask(i)
    \/ PiezoTask
    \/ MainWake
    \/ MainUpdate
    \/ MainOrchestrate
    \/ MainJingle
    \/ AdvanceToAlarm
    \/ AdvancePastDebounce
    \/ FastForward
    \/ AdvanceBeforeLong
    \/ TickInButtonTaskOfDevice

SpecHold == DeviceInit /\ [][HoldNext]_vars

\* C40: one physical press changes the session state at most once.  The
\* events delivered for one press of a button, by button_task and by the
\* long press check in any interleaving, change timer_state once at most:
\* no press both dismisses a Completed or Alerting session and starts a new
\* one.
C40_OneChangePerPress ==
    \A b \in Buttons : presses[b].changes <= 1
====
